---- MODULE Spec2Model ----
(***************************************************************************)
(* VFader: a bank of virtual faders with soft takeover (pickup), gang      *)
(* (macro) propagation and 7-bit / 14-bit MIDI CC encoding.                *)
(*                                                                         *)
(* Numbers.  The program works on 32-bit floats in [0,1].  The model uses  *)
(* fixed point with six decimals: the float x is the integer x * One, so   *)
(* 0.005333f is 5333 and 0.03f is 30000.  Products that the program       *)
(* divides again are computed exactly and floored to the sixth decimal.    *)
(***************************************************************************)
EXTENDS Integers, Sequences, FiniteSets, TLC

\* ------------------------------------------------------------------ bounds
\* Number of faders of the bank kept by the model (the program has 32).
NumFaders == 3

Faders == 0 .. (NumFaders - 1)

\* ------------------------------------------------------------ fixed point
One == 1000 * 1000
Kilo == 10 * 100
Unset == 0 - One                  \* the -1.0f sentinel

Abs(x) == IF x < 0 THEN 0 - x ELSE x

\* floor(a * b / c) for 0 <= a, b <= One and 0 < c, without leaving 32 bits.
MulDiv(a, b, c) ==
    LET b1 == b \div Kilo
        b0 == b % Kilo
        X  == a * b1
        Y  == a * b0
        qx == X \div c
        rx == X % c
    IN  qx * Kilo + ((rx * Kilo + Y) \div c)

\* self->v[p] / 16383.0f, clamped to [0,1]            (parameterChanged)
ParamMax == 16383
scaleParam(p) ==
    LET q == MulDiv(p, One, ParamMax)
    IN  IF q < 0 THEN 0 ELSE IF q > One THEN One ELSE q

\* 3% deadzones at both ends
deadzoneLo == 30000
deadzoneHi == 970000
applyDeadzone(v) ==
    IF v < deadzoneLo THEN 0 ELSE IF v > deadzoneHi THEN One ELSE v

\* (int)(x * 500.0f + 0.5f)
coarseSteps == 500
coarse(x) == (x * coarseSteps + (One \div 2)) \div One

coarseMismatchOf(v, currentValue) ==
    Abs(coarse(v) - coarse(applyDeadzone(currentValue)))

\* ------------------------------------------------------------------- state
VARIABLES
    internalFaders,       \* float internalFaders[32]
    lastMidiValues,       \* float lastMidiValues[32], -1 = never sent
    physicalFaderPos,     \* float physicalFaderPos[32]
    lastPhysicalPos,      \* float lastPhysicalPos[32]
    pickupPivot,          \* float pickupPivot[32], -1 = unset
    pickupStartValue,     \* float pickupStartValue[32]
    inPickupMode,         \* bool inPickupMode[32]
    inSlewMode,           \* bool inSlewMode[32]
    pickupSettleFrames,   \* uint8_t pickupSettleFrames[32]
    send14bitPhase,       \* bool send14bitPhase: FALSE = MSB, TRUE = LSB
    endpointHoldCounter,  \* uint8_t endpointHoldCounter[32]
    displayMode,          \* faderNoteSettings[i].displayMode: 0 Number, 1 Note
    bottomMidi,           \* faderNoteSettings[i].bottomMidi
    topMidi,              \* faderNoteSettings[i].topMidi
    bottomValue,          \* faderNoteSettings[i].bottomValue
    topValue,             \* faderNoteSettings[i].topValue
    chromaticScale,       \* faderNoteSettings[i].chromaticScale, as the set of notes switched on
    controlAllCount,      \* faderNoteSettings[i].controlAllCount
    controlAllMode,       \* faderNoteSettings[i].controlAllMode: 0 Absolute, 1 Relative
    faderReferenceValues, \* float faderReferenceValues[32]
    lastGangValues,       \* float lastGangValues[32], -1 = never propagated
    midiMode,             \* self->v[kParamMidiMode]: 0 = 7-bit, 1 = 14-bit
    pickupMode,           \* self->v[kParamPickupMode]: 0 = Scaled, 1 = Catch
    driftLevel,           \* self->v[kParamDriftControl]: 0 Off, 1 Low, 2 High
    wire,                 \* per fader, the message the last step() sent (or NoMsg)
    written,              \* per fader, the leaders whose propagation wrote it in the last step()
    rxMsb,                \* per fader, the value of the last MSB message on the wire (-1: none yet)
    rxLsb,                \* per fader, the value of the last LSB message on the wire (-1: none yet)
    currentStep,          \* VSeq: int currentStep[3]
    pingpongForward,      \* VSeq: bool pingpongForward[3]
    section1Counter,      \* VSeq: int section1Counter[3]
    section2Counter,      \* VSeq: int section2Counter[3]
    inSection2,           \* VSeq: bool inSection2[3]
    gateCurrentStep,      \* VSeq: int gateCurrentStep[6]
    gatePingpongForward,  \* VSeq: bool gatePingpongForward[6]
    gateSection1Counter,  \* VSeq: int gateSection1Counter[6]
    gateSection2Counter,  \* VSeq: int gateSection2Counter[6]
    gateInSection2,       \* VSeq: bool gateInSection2[6]
    seqV,                 \* VSeq: self->v[kParamSeqN...], the settings of each CV sequencer
    gateV,                \* VSeq: self->v[kParamGateN...], the settings of each gate track
    gateRun,              \* VSeq: self->v[kParamGateNRun]: 0 = stopped, 1 = running
    gateSteps,            \* VSeq: uint8_t gateSteps[6][32]: 0 off, 1 normal, 2 accent
    gateTriggerCounter,   \* VSeq: int gateTriggerCounter[6]
    lastClockIn,          \* VSeq: float lastClockIn
    lastResetIn,          \* VSeq: float lastResetIn
    stepValues,           \* VSeq: int16_t stepValues[3][32][3]
    selectedStep,         \* VSeq: int selectedStep
    selectedSeq,          \* VSeq: int selectedSeq: 0-2 a CV sequencer, 3 the gate sequencer
    selectedTrack,        \* VSeq: int selectedTrack
    lastEncoderRButton,   \* VSeq: lastEncoderRButton & kNT_encoderButtonR
    potCaught,            \* VSeq: bool potCaught[3]
    trackPotCaught,       \* VSeq: bool trackPotCaught
    ev,                   \* the call that produced this state
    n                     \* calls made so far in a scripted scenario

chanVars == << internalFaders, physicalFaderPos, lastPhysicalPos, pickupPivot,
               pickupStartValue, inPickupMode, inSlewMode, pickupSettleFrames >>
encVars  == << lastMidiValues, send14bitPhase, endpointHoldCounter, wire >>
gangVars == << faderReferenceValues, lastGangValues, written >>
cfgVars  == << displayMode, bottomMidi, topMidi, bottomValue, topValue,
               chromaticScale, controlAllCount, controlAllMode >>
parVars  == << midiMode, pickupMode, driftLevel >>
obsVars  == << rxMsb, rxLsb >>
faderVars == << chanVars, encVars, gangVars, cfgVars, parVars, obsVars >>
cvVars   == << currentStep, pingpongForward, section1Counter, section2Counter,
               inSection2 >>
gateVars == << gateCurrentStep, gatePingpongForward, gateSection1Counter,
               gateSection2Counter, gateInSection2 >>
clockVars == << gateRun, gateSteps, gateTriggerCounter, lastClockIn, lastResetIn >>
uiVars   == << stepValues, selectedStep, selectedSeq, selectedTrack,
               lastEncoderRButton, potCaught, trackPotCaught >>
seqVars  == << cvVars, gateVars, seqV, gateV, clockVars, uiVars >>
vars == << faderVars, seqVars, ev, n >>

\* uint8_t midiChannel = 1; status = 0xB0 | (midiChannel - 1)
midiChannel == 1
controlChange == 176
statusByte == controlChange + (midiChannel - 1)

NoMsg == [half |-> "none", status |-> 0, cc |-> 0, val |-> 0]

\* ------------------------------------------------- pickup: parameterChanged
\* One channel's pickup record, as parameterChanged reads and writes it.
Chan(i) == [ value  |-> internalFaders[i],
             pickup |-> inPickupMode[i],
             slew   |-> inSlewMode[i],
             pivot  |-> pickupPivot[i],
             start  |-> pickupStartValue[i],
             settle |-> pickupSettleFrames[i] ]

moveThreshold == 1000
isMovingContinuously(movementDelta) == Abs(movementDelta) > moveThreshold

isSameDirection(movementDelta, v, physPos) ==
    \/ (movementDelta > 0 /\ (v - physPos) > 0)
    \/ (movementDelta < 0 /\ (v - physPos) < 0)

\* settle counter on a sample taken in absolute mode
settleAfterSample(settle, movingContinuously) ==
    IF settle > 0
    THEN (IF ~movingContinuously THEN settle - 1 ELSE 0)
    ELSE settle

bigMismatchSteps == 50
smallMismatchSteps == 5
\* a big mismatch alone does not force pickup (variant of shouldEnterPickup)
shouldEnterPickup_NoBig(settle, coarseMismatch, movingContinuously, sameDirection) ==
    settle = 0 /\ coarseMismatch > smallMismatchSteps
               /\ ~(movingContinuously /\ sameDirection)

\* the settle countdown is not consulted (variant of shouldEnterPickup)
shouldEnterPickup_NoSettle(settle, coarseMismatch, movingContinuously, sameDirection) ==
    coarseMismatch > bigMismatchSteps
    \/ (coarseMismatch > smallMismatchSteps /\ ~(movingContinuously /\ sameDirection))

shouldEnterPickup(settle, coarseMismatch, movingContinuously, sameDirection) ==
    LET bigMismatch   == coarseMismatch > bigMismatchSteps
        smallMismatch == coarseMismatch > smallMismatchSteps
    IN  settle = 0 /\
        (bigMismatch \/ (smallMismatch /\ ~(movingContinuously /\ sameDirection)))

\* if (!inPickupMode) { ... }
absoluteBranch(c, v, coarseMismatch, movingContinuously, sameDirection) ==
    LET settle == settleAfterSample(c.settle, movingContinuously)
    IN  IF shouldEnterPickup(settle, coarseMismatch, movingContinuously, sameDirection)
        THEN [c EXCEPT !.pickup = TRUE, !.pivot = v, !.start = c.value,
                       !.settle = settle]
        ELSE [c EXCEPT !.value = v, !.settle = settle]

\* the affine target of the scaled pickup, clamped to [0,1]
rangeEpsilon == 1000
scaledTarget(pivotPos, startValue, v) ==
    LET physicalDelta == v - pivotPos
        up   == LET physicalRange == One - pivotPos
                    valueRange    == One - startValue
                IN  IF physicalRange > rangeEpsilon
                    THEN startValue +
                         (IF physicalDelta > physicalRange
                          THEN valueRange
                          ELSE MulDiv(physicalDelta, valueRange, physicalRange))
                    ELSE One
        down == LET physicalRange == pivotPos
                    valueRange    == startValue
                IN  IF physicalRange > rangeEpsilon
                    THEN startValue -
                         (IF (0 - physicalDelta) > physicalRange
                          THEN valueRange
                          ELSE MulDiv(0 - physicalDelta, valueRange, physicalRange))
                    ELSE 0
        targetValue == IF physicalDelta > 0 THEN up
                       ELSE IF physicalDelta < 0 THEN down
                       ELSE startValue
    IN  IF targetValue < 0 THEN 0 ELSE IF targetValue > One THEN One ELSE targetValue

\* SCALED MODE branch
caughtUpBand == 20000
\* the exit leaves the pivot in place (variant of scaledBranch)
scaledBranch_KeepPivot(c, v) ==
    LET targetValue == scaledTarget(c.pivot, c.start, v)
    IN  IF Abs(v - targetValue) < caughtUpBand
        THEN [c EXCEPT !.pickup = FALSE, !.value = v]
        ELSE [c EXCEPT !.value = targetValue]

\* the exit takes the computed target, not the sample (variant of scaledBranch)
scaledBranch_ExitAtTarget(c, v) ==
    LET targetValue == scaledTarget(c.pivot, c.start, v)
    IN  IF Abs(v - targetValue) < caughtUpBand
        THEN [c EXCEPT !.pickup = FALSE, !.pivot = Unset, !.value = targetValue]
        ELSE [c EXCEPT !.value = targetValue]

scaledBranch(c, v) ==
    LET targetValue == scaledTarget(c.pivot, c.start, v)
        caughtUp    == Abs(v - targetValue) < caughtUpBand
    IN  IF caughtUp
        THEN [c EXCEPT !.pickup = FALSE, !.pivot = Unset, !.value = v]
        ELSE [c EXCEPT !.value = targetValue]

\* CATCH MODE branch
slewRate == 5333
closeExitSteps == 50
slewEnterSteps == 25
slewExitSteps == 2
settleAfterSnap == 5
slewStep(currentValue, v) ==
    IF (v - currentValue) > 0 THEN currentValue + slewRate ELSE currentValue - slewRate

catchBranch(c, v, coarseMismatch, movingContinuously, sameDirection) ==
    IF movingContinuously /\ sameDirection /\ coarseMismatch < closeExitSteps
    THEN [c EXCEPT !.value = v, !.pickup = FALSE, !.slew = FALSE,
                   !.pivot = Unset, !.settle = 0]
    ELSE IF coarseMismatch < slewEnterSteps
    THEN IF coarseMismatch < slewExitSteps
         THEN [c EXCEPT !.value = v, !.pickup = FALSE, !.slew = FALSE,
                        !.pivot = Unset, !.settle = settleAfterSnap]
         ELSE [c EXCEPT !.slew = TRUE, !.value = slewStep(c.value, v)]
    ELSE [c EXCEPT !.value = scaledTarget(c.pivot, c.start, v)]

\* is fader i inside the range of an earlier gang leader
isChild(i) ==
    \E g \in Faders :
        /\ g < i
        /\ controlAllCount[g] > 0
        /\ i >= g + 1
        /\ i <= g + controlAllCount[g]

\* the pickup record after a sample p (0..16383) on fader i
resolveSample(i, p) ==
    LET v == applyDeadzone(scaleParam(p))
        c == Chan(i)
        coarseMismatch     == coarseMismatchOf(v, c.value)
        movementDelta      == v - lastPhysicalPos[i]
        movingContinuously == isMovingContinuously(movementDelta)
        sameDirection      == isSameDirection(movementDelta, v, physicalFaderPos[i])
    IN  IF ~c.pickup
        THEN absoluteBranch(c, v, coarseMismatch, movingContinuously, sameDirection)
        ELSE IF pickupMode = 1
        THEN catchBranch(c, v, coarseMismatch, movingContinuously, sameDirection)
        ELSE scaledBranch(c, v)

\* void parameterChanged(self, p) for a FADER parameter mapped to fader i
parameterChanged(i, p) ==
    LET v == applyDeadzone(scaleParam(p))
        r == resolveSample(i, p)
    IN  /\ lastPhysicalPos'    = [lastPhysicalPos EXCEPT ![i] = physicalFaderPos[i]]
        /\ physicalFaderPos'   = [physicalFaderPos EXCEPT ![i] = v]
        /\ internalFaders'     = [internalFaders EXCEPT ![i] = r.value]
        /\ inPickupMode'       = [inPickupMode EXCEPT ![i] = r.pickup]
        /\ inSlewMode'         = [inSlewMode EXCEPT ![i] = r.slew]
        /\ pickupPivot'        = [pickupPivot EXCEPT ![i] = r.pivot]
        /\ pickupStartValue'   = [pickupStartValue EXCEPT ![i] = r.start]
        /\ pickupSettleFrames' = [pickupSettleFrames EXCEPT ![i] = r.settle]
        /\ faderReferenceValues' =
               IF isChild(i) /\ ~r.pickup
               THEN [faderReferenceValues EXCEPT ![i] = r.value]
               ELSE faderReferenceValues
        /\ ev' = [op |-> "param", i |-> i]
        /\ UNCHANGED << encVars, lastGangValues, written, cfgVars, parVars, obsVars, seqVars >>

\* ------------------------------------------------------- step(): gang faders
Half == One \div 2

\* the leader is visited as its own first child (variant of gangChildren)
gangChildren_Self(i) ==
    { c \in Faders : /\ c >= i
                     /\ c <= i + controlAllCount[i]
                     /\ (c = i \/ controlAllCount[c] = 0) }

\* the children the loops of leader i visit: i+1 .. i+count, below the end of
\* the bank, skipping every fader that is itself a leader
gangChildren(i) ==
    { c \in Faders : /\ c >= i + 1
                     /\ c <= i + controlAllCount[i]
                     /\ controlAllCount[c] = 0 }

SetMin(S) == CHOOSE x \in S : \A y \in S : x <= y
SetMax(S) == CHOOSE x \in S : \A y \in S : x >= y

\* Absolute mode: the shift every child gets (gangLogical - 0.5)
absoluteShift(gangValue, refs, children) ==
    LET minRef == SetMin({One} \cup { refs[c] : c \in children })
        maxRef == SetMax({0} \cup { refs[c] : c \in children })
        gangLogicalMin == Half - maxRef
        gangLogicalMax == Half + (One - minRef)
        gangLogical == gangLogicalMin
                       + MulDiv(gangValue, gangLogicalMax - gangLogicalMin, One)
    IN  gangLogical - Half

\* no clamping of the propagated value (variant of clamp01)
clamp01_None(x) == x

\* Relative mode: proportional scaling from the reference position
relativeValue(gangValue, refValue) ==
    IF gangValue <= Half
    THEN MulDiv(refValue, 2 * gangValue, One)
    ELSE refValue + MulDiv(One - refValue, 2 * (gangValue - Half), One)

\* the propagated value is clamped at 0 only (variant of clamp01)
clamp01_Low(x) == IF x < 0 THEN 0 ELSE x

clamp01(x) == IF x < 0 THEN 0 ELSE IF x > One THEN One ELSE x

gangChangeThreshold == 1000
gangChanged(gangValue, lastGangValue) ==
    lastGangValue < 0 \/ Abs(gangValue - lastGangValue) > gangChangeThreshold

\* one iteration of the leader loop, on g = [f: values, r: references,
\* l: lastGangValues, w: who wrote whom]
gangLeader(i, g) ==
    IF controlAllCount[i] > 0 /\ gangChanged(g.f[i], g.l[i])
    THEN LET gangValue == g.f[i]
             children  == gangChildren(i)
             shift     == absoluteShift(gangValue, g.r, children)
             newValue(c) ==
                 clamp01(IF controlAllMode[i] = 0
                         THEN g.r[c] + shift
                         ELSE relativeValue(gangValue, g.r[c]))
         IN  [ f |-> [c \in Faders |-> IF c \in children THEN newValue(c) ELSE g.f[c]],
               r |-> [c \in Faders |->
                        IF c \in children /\ controlAllMode[i] = 1
                        THEN newValue(c) ELSE g.r[c]],
               l |-> [g.l EXCEPT ![i] = gangValue],
               w |-> [c \in Faders |->
                        IF c \in children THEN g.w[c] \cup {i} ELSE g.w[c]] ]
    ELSE g

\* for (int i = 0; i < 32; i++) { ... } from leader i onwards
RECURSIVE gangPass(_, _)
gangPass(i, g) ==
    IF i >= NumFaders THEN g ELSE gangPass(i + 1, gangLeader(i, g))

\* ------------------------------------------------------ step(): the encoder
driftLow == 5000
driftHigh == 10000
\* drift control never locks (variant of applyDriftControl)
applyDriftControl_Off(newValue, lockedValue, level) == newValue

applyDriftControl(newValue, lockedValue, level) ==
    IF level = 0 THEN newValue
    ELSE LET threshold == IF level = 1 THEN driftLow
                          ELSE IF level = 2 THEN driftHigh ELSE 0
         IN  IF lockedValue < 0 THEN newValue
             ELSE IF Abs(newValue - lockedValue) > threshold THEN newValue
             ELSE lockedValue

\* snapToActiveNote(faderValue, settings)
edgeLo == 50000
edgeHi == 950000
edgeSpan == 900000
midiTop == 127
snapToActiveNote(faderValue, i) ==
    LET activeNotes == { m \in bottomMidi[i] .. topMidi[i] :
                            m <= midiTop /\ (m % 12) \in chromaticScale[i] }
        numActive   == Cardinality(activeNotes)
        nth(k)      == CHOOSE m \in activeNotes :
                          Cardinality({ x \in activeNotes : x < m }) = k
        raw         == ((faderValue - edgeLo) * (numActive - 1) * 2 + edgeSpan)
                          \div (2 * edgeSpan)
        index       == IF raw < 0 THEN 0
                       ELSE IF raw >= numActive THEN numActive - 1 ELSE raw
    IN  IF numActive = 0 THEN bottomMidi[i]
        ELSE IF numActive = 1 THEN nth(0)
        ELSE IF faderValue <= edgeLo THEN nth(0)
        ELSE IF faderValue >= edgeHi THEN nth(numActive - 1)
        ELSE nth(index)

\* snapToValueRange(faderValue, settings)
snapToValueRange(faderValue, i) ==
    LET range  == topValue[i] - bottomValue[i]
        scaled == bottomValue[i]
                  + (((faderValue - edgeLo) * range * 2 + edgeSpan) \div (2 * edgeSpan))
    IN  IF faderValue <= edgeLo THEN bottomValue[i]
        ELSE IF faderValue >= edgeHi THEN topValue[i]
        ELSE IF scaled < bottomValue[i] THEN bottomValue[i]
        ELSE IF scaled > topValue[i] THEN topValue[i]
        ELSE scaled

changeThreshold == 1000

\* every tick counts as a change (variant of valueChanged)
valueChanged_Always(currentValue, lastValue) == TRUE

\* only a change of more than 1% counts (variant of valueChanged)
valueChanged_Coarse(currentValue, lastValue) ==
    Abs(currentValue - lastValue) > 10 * changeThreshold

valueChanged(currentValue, lastValue) ==
    Abs(currentValue - lastValue) > changeThreshold

percentMax == 100

\* the 7-bit controller is the fader index itself (variant of ccNumber)
ccNumber_Index(i) == i

\* uint8_t ccNumber = (uint8_t)(i + 1)
ccNumber(i) == i + 1

\* the 7-bit send forgets what it sent (variant of lastAfterSend7)
lastAfterSend7_Stale(currentValue, lastValue) == lastValue

\* a->lastMidiValues[i] = currentValue after the 7-bit send
lastAfterSend7(currentValue, lastValue) == currentValue

\* 7-bit mode, one fader: [msg: what goes out, last: lastMidiValues, hold: endpointHoldCounter]
encode7(i, rawValue) ==
    LET lastValue    == lastMidiValues[i]
        currentValue == applyDriftControl(rawValue, lastValue, driftLevel)
        midiValue    == IF displayMode[i] = 1
                        THEN snapToActiveNote(currentValue, i) % 256
                        ELSE LET m == ((snapToValueRange(currentValue, i) * midiTop)
                                        \div percentMax) % 256
                             IN  IF m > midiTop THEN midiTop ELSE m
    IN  IF lastValue < 0 \/ valueChanged(currentValue, lastValue)
        THEN [ msg  |-> [half |-> "cc7", status |-> statusByte, cc |-> ccNumber(i),
                         val |-> midiValue],
               last |-> lastAfterSend7(currentValue, lastValue),
               hold |-> endpointHoldCounter[i] ]
        ELSE [ msg |-> NoMsg, last |-> lastValue, hold |-> endpointHoldCounter[i] ]

fullScale == 16383

\* the product is truncated, not rounded (variant of round14)
round14_Trunc(x) ==
    ((x \div Kilo) * fullScale + ((x % Kilo) * fullScale) \div Kilo) \div Kilo

\* (int)(x * 16383.0f + 0.5f), clamped to 0..16383
round14(x) ==
    LET hi == x \div Kilo
        lo == x % Kilo
        f  == (hi * fullScale + ((lo * fullScale + Half) \div Kilo)) \div Kilo
    IN  IF f > fullScale THEN fullScale ELSE IF f < 0 THEN 0 ELSE f

msbOf(full) == LET m == (full \div 128) % 256 IN IF m > midiTop THEN midiTop ELSE m
lsbOf(full) == full % 128

\* the MSB goes out on either phase (variant of halfMessage)
halfMessage_Msb(i, full, phase) ==
    [half |-> "msb", status |-> statusByte, cc |-> i, val |-> msbOf(full)]

\* the half of `full` that the current phase selects, for fader i
halfMessage(i, full, phase) ==
    IF phase
    THEN [half |-> "lsb", status |-> statusByte, cc |-> i + 32, val |-> lsbOf(full)]
    ELSE [half |-> "msb", status |-> statusByte, cc |-> i, val |-> msbOf(full)]

endpointLo == 10000
endpointHi == 990000
holdFrames == 3
\* the 14-bit integer of a changed value and whether it snapped to an endpoint
full14(i, currentValue) ==
    IF displayMode[i] = 1
    THEN [full |-> snapToActiveNote(currentValue, i) * 128, endpoint |-> FALSE]
    ELSE LET lo == currentValue < endpointLo
             s1 == IF lo THEN 0 ELSE currentValue
             hi == s1 > endpointHi
             s2 == IF hi THEN One ELSE s1
         IN  [full |-> round14(s2), endpoint |-> lo \/ hi]

\* the last-sent value moves on either phase (variant of updatesLast)
updatesLast_Always(phase) == TRUE

\* when lastMidiValues is written in the changed-value branch
updatesLast(phase) == phase

\* the value the hold branch sends again
heldFull(i) == round14(lastMidiValues[i])

\* the hold counter never counts down (variant of holdAfterResend)
holdAfterResend_Stuck(h) == h

\* a->endpointHoldCounter[i]-- in the hold branch
holdAfterResend(h) == h - 1

\* 14-bit mode, one fader
encode14(i, rawValue) ==
    LET lastValue    == lastMidiValues[i]
        currentValue == applyDriftControl(rawValue, lastValue, driftLevel)
    IN  IF lastValue < 0 \/ valueChanged(currentValue, lastValue)
        THEN LET e == full14(i, currentValue)
             IN  [ msg  |-> halfMessage(i, e.full, send14bitPhase),
                   last |-> IF updatesLast(send14bitPhase)
                            THEN currentValue ELSE lastValue,
                   hold |-> IF e.endpoint THEN holdFrames
                            ELSE endpointHoldCounter[i] ]
        ELSE IF endpointHoldCounter[i] > 0
        THEN [ msg  |-> halfMessage(i, heldFull(i), send14bitPhase),
               last |-> lastValue,
               hold |-> holdAfterResend(endpointHoldCounter[i]) ]
        ELSE [ msg |-> NoMsg, last |-> lastValue, hold |-> endpointHoldCounter[i] ]

encode(i, rawValue) ==
    IF midiMode = 0 THEN encode7(i, rawValue) ELSE encode14(i, rawValue)

\* the encoder reads the value the fader had before the gang loop (variant
\* of encoderInput)
encoderInput_Stale(before, after) == before

\* float rawValue = a->internalFaders[i], read after the gang loop has run
encoderInput(before, after) == after

\* void step(self, busFrames, numFramesBy4)
step ==
    LET g == gangPass(0, [ f |-> internalFaders, r |-> faderReferenceValues,
                           l |-> lastGangValues,
                           w |-> [c \in Faders |-> {}] ])
        e == [i \in Faders |-> encode(i, encoderInput(internalFaders[i], g.f[i]))]
    IN  /\ internalFaders'       = g.f
        /\ faderReferenceValues' = g.r
        /\ lastGangValues'       = g.l
        /\ written'              = g.w
        /\ wire'                 = [i \in Faders |-> e[i].msg]
        /\ lastMidiValues'       = [i \in Faders |-> e[i].last]
        /\ endpointHoldCounter'  = [i \in Faders |-> e[i].hold]
        /\ send14bitPhase'       = IF midiMode = 0 THEN send14bitPhase
                                   ELSE ~send14bitPhase
        /\ rxMsb' = [i \in Faders |->
                       IF e[i].msg.half = "msb" THEN e[i].msg.val ELSE rxMsb[i]]
        /\ rxLsb' = [i \in Faders |->
                       IF e[i].msg.half = "lsb" THEN e[i].msg.val ELSE rxLsb[i]]
        /\ ev' = [op |-> "step", i |-> 0]
        /\ UNCHANGED << physicalFaderPos, lastPhysicalPos, pickupPivot,
                        pickupStartValue, inPickupMode, inSlewMode,
                        pickupSettleFrames, cfgVars, parVars, seqVars >>


\* ------------------------------------------------------ customUi: settings
\* Name-edit mode, settings page, setting 0: the right encoder toggles the
\* display mode of the fader being edited and invalidates its MIDI cache.
customUiDisplayMode(f) ==
    /\ displayMode' = [displayMode EXCEPT ![f] = IF displayMode[f] = 0 THEN 1 ELSE 0]
    /\ lastMidiValues' = [lastMidiValues EXCEPT ![f] = Unset]
    /\ ev' = [op |-> "ui", i |-> f]
    /\ UNCHANGED << chanVars, send14bitPhase, endpointHoldCounter, wire, gangVars,
                    bottomMidi, topMidi, bottomValue, topValue, chromaticScale,
                    controlAllCount, controlAllMode, parVars, obsVars, seqVars >>

\* the largest count the gang page accepts for fader f
countMax == 31
maxPossible(f) ==
    LET later == { i \in Faders : i > f /\ controlAllCount[i] > 0 }
    IN  IF later = {} THEN (NumFaders - 1) - f ELSE (SetMin(later) - f) - 1

\* Name-edit mode, gang page, setting 0: the right encoder (delta -1 / +1)
\* edits the control count of the fader being edited.
customUiControlCount(f, encoderDelta) ==
    LET oldCount == controlAllCount[f]
        c1 == oldCount + encoderDelta
        c2 == IF c1 < 0 THEN 0 ELSE IF c1 > countMax THEN countMax ELSE c1
        newCount == IF c2 > maxPossible(f) THEN maxPossible(f) ELSE c2
        created == oldCount = 0 /\ newCount > 0
    IN  /\ controlAllCount' = [controlAllCount EXCEPT ![f] = newCount]
        /\ faderReferenceValues' =
              [c \in Faders |->
                  IF created /\ c >= f + 1 /\ c <= f + newCount
                  THEN internalFaders[c] ELSE faderReferenceValues[c]]
        /\ lastGangValues' =
              IF created THEN [lastGangValues EXCEPT ![f] = internalFaders[f]]
              ELSE lastGangValues
        /\ ev' = [op |-> "ui", i |-> f]
        /\ UNCHANGED << chanVars, encVars, written, displayMode, bottomMidi, topMidi,
                        bottomValue, topValue, chromaticScale, controlAllMode,
                        parVars, obsVars, seqVars >>

\* Name-edit mode, gang page, setting 1: the right encoder toggles the mode.
customUiControlMode(f) ==
    /\ controlAllMode' = [controlAllMode EXCEPT ![f] = IF controlAllMode[f] = 0 THEN 1 ELSE 0]
    /\ ev' = [op |-> "ui", i |-> f]
    /\ UNCHANGED << chanVars, encVars, gangVars, displayMode, bottomMidi, topMidi,
                    bottomValue, topValue, chromaticScale, controlAllCount,
                    parVars, obsVars, seqVars >>

\* ------------------------------------------------------------- deserialise
\* Preset load with a "faders" member: the stored values replace internalFaders.
deserialise(faders) ==
    /\ internalFaders' = faders
    /\ ev' = [op |-> "load", i |-> 0]
    /\ UNCHANGED << physicalFaderPos, lastPhysicalPos, pickupPivot, pickupStartValue,
                    inPickupMode, inSlewMode, pickupSettleFrames, encVars, gangVars,
                    cfgVars, parVars, obsVars, seqVars >>

\* Preset load with a "faders" and a "faderReferenceValues" member.
deserialiseWithRefs(faders, refs) ==
    /\ internalFaders' = faders
    /\ faderReferenceValues' = refs
    /\ ev' = [op |-> "load", i |-> 0]
    /\ UNCHANGED << physicalFaderPos, lastPhysicalPos, pickupPivot, pickupStartValue,
                    inPickupMode, inSlewMode, pickupSettleFrames, encVars,
                    lastGangValues, written, cfgVars, parVars, obsVars, seqVars >>

\* ------------------------------------------- VSeq: advancing the sequencers
numSeqs == 3
numTracks == 6
Seqs == 0 .. (numSeqs - 1)
Tracks == 0 .. (numTracks - 1)

\* the last step is held instead of wrapping to 0 (variant of wrapForward)
wrapForward_Hold(s, length) == IF s + 1 >= length THEN length - 1 ELSE s + 1

\* currentStep++; if (currentStep >= stepCount) currentStep = 0
wrapForward(s, length) == IF s + 1 >= length THEN 0 ELSE s + 1

\* currentStep--; if (currentStep < 0) currentStep = stepCount - 1
wrapBackward(s, length) == IF s - 1 < 0 THEN length - 1 ELSE s - 1

\* one repetition too many (variant of repeatsDone)
repeatsDone_Late(counter, reps) == counter > reps

\* if (section1Counter >= sec1Reps), if (section2Counter >= sec2Reps)
repeatsDone(counter, reps) == counter >= reps

\* the fields of CV sequencer seq
seqState(seq) ==
    [ step |-> currentStep[seq], fwd |-> pingpongForward[seq],
      c1 |-> section1Counter[seq], c2 |-> section2Counter[seq],
      in2 |-> inSection2[seq] ]

\* the turn at the top goes straight to the step below (variant of
\* advancePingpong)
advancePingpong_Bounce(s, stepCount) ==
    IF s.fwd
    THEN (IF s.step + 1 >= stepCount
          THEN [s EXCEPT !.step = IF stepCount - 2 < 0 THEN 0 ELSE stepCount - 2,
                         !.fwd = FALSE]
          ELSE [s EXCEPT !.step = s.step + 1])
    ELSE (IF s.step - 1 < 0
          THEN [s EXCEPT !.step = 0, !.fwd = TRUE]
          ELSE [s EXCEPT !.step = s.step - 1])

\* Pingpong without sections: the end steps are played twice
advancePingpong(s, stepCount) ==
    IF s.fwd
    THEN (IF s.step + 1 >= stepCount
          THEN [s EXCEPT !.step = stepCount - 1, !.fwd = FALSE]
          ELSE [s EXCEPT !.step = s.step + 1])
    ELSE (IF s.step - 1 < 0
          THEN [s EXCEPT !.step = 0, !.fwd = TRUE]
          ELSE [s EXCEPT !.step = s.step - 1])

\* if (splitPoint >= stepCount) { ... return; }
advanceSimple(s, direction, stepCount) ==
    IF direction = 0 THEN [s EXCEPT !.step = wrapForward(s.step, stepCount)]
    ELSE IF direction = 1 THEN [s EXCEPT !.step = wrapBackward(s.step, stepCount)]
    ELSE advancePingpong(s, stepCount)

\* section-based logic, Forward
advanceSectionForward(s, stepCount, splitPoint, sec1Reps, sec2Reps) ==
    LET c == s.step + 1
    IN  IF ~s.in2
        THEN (IF c >= splitPoint
              THEN (IF repeatsDone(s.c1 + 1, sec1Reps)
                    THEN [s EXCEPT !.step = c, !.in2 = TRUE, !.c1 = 0]
                    ELSE [s EXCEPT !.step = 0, !.c1 = s.c1 + 1])
              ELSE [s EXCEPT !.step = c])
        ELSE (IF c >= stepCount
              THEN (IF repeatsDone(s.c2 + 1, sec2Reps)
                    THEN [s EXCEPT !.step = 0, !.in2 = FALSE, !.c2 = 0]
                    ELSE [s EXCEPT !.step = splitPoint, !.c2 = s.c2 + 1])
              ELSE [s EXCEPT !.step = c])

\* section-based logic, Backward
advanceSectionBackward(s, stepCount, splitPoint, sec1Reps, sec2Reps) ==
    LET c == s.step - 1
    IN  IF s.in2
        THEN (IF c < splitPoint
              THEN (IF repeatsDone(s.c2 + 1, sec2Reps)
                    THEN [s EXCEPT !.step = c, !.in2 = FALSE, !.c2 = 0]
                    ELSE [s EXCEPT !.step = stepCount - 1, !.c2 = s.c2 + 1])
              ELSE [s EXCEPT !.step = c])
        ELSE (IF c < 0
              THEN (IF repeatsDone(s.c1 + 1, sec1Reps)
                    THEN [s EXCEPT !.step = stepCount - 1, !.in2 = TRUE, !.c1 = 0]
                    ELSE [s EXCEPT !.step = splitPoint - 1, !.c1 = s.c1 + 1])
              ELSE [s EXCEPT !.step = c])

\* section-based logic, Pingpong
advanceSectionPingpong(s, stepCount) ==
    IF s.fwd
    THEN (IF s.step + 1 >= stepCount
          THEN [s EXCEPT !.step = stepCount - 1, !.fwd = FALSE]
          ELSE [s EXCEPT !.step = s.step + 1])
    ELSE (IF s.step - 1 <= 0
          THEN [s EXCEPT !.step = 0, !.fwd = TRUE]
          ELSE [s EXCEPT !.step = s.step - 1])

\* the fields of the sequencer after the call
advancedSequencer(s, direction, stepCount, splitPoint, sec1Reps, sec2Reps) ==
    IF splitPoint >= stepCount THEN advanceSimple(s, direction, stepCount)
    ELSE IF direction = 0
    THEN advanceSectionForward(s, stepCount, splitPoint, sec1Reps, sec2Reps)
    ELSE IF direction = 1
    THEN advanceSectionBackward(s, stepCount, splitPoint, sec1Reps, sec2Reps)
    ELSE advanceSectionPingpong(s, stepCount)

\* void advanceSequencer(seq, direction, stepCount, splitPoint, sec1Reps, sec2Reps)
advanceSequencer(seq, direction, stepCount, splitPoint, sec1Reps, sec2Reps) ==
    LET t == advancedSequencer(seqState(seq), direction, stepCount, splitPoint,
                               sec1Reps, sec2Reps)
    IN  /\ currentStep'     = [currentStep EXCEPT ![seq] = t.step]
        /\ pingpongForward' = [pingpongForward EXCEPT ![seq] = t.fwd]
        /\ section1Counter' = [section1Counter EXCEPT ![seq] = t.c1]
        /\ section2Counter' = [section2Counter EXCEPT ![seq] = t.c2]
        /\ inSection2'      = [inSection2 EXCEPT ![seq] = t.in2]
        /\ ev' = [op |-> "advanceSequencer", i |-> seq]
        /\ UNCHANGED << faderVars, gateVars, seqV, gateV, clockVars, uiVars >>

\* the fields of gate track track
gateState(track) ==
    [ step |-> gateCurrentStep[track], fwd |-> gatePingpongForward[track],
      c1 |-> gateSection1Counter[track], c2 |-> gateSection2Counter[track],
      in2 |-> gateInSection2[track] ]

\* the end steps are played twice (variant of advanceGatePingpong)
advanceGatePingpong_Repeat(s, trackLength) ==
    IF s.fwd
    THEN (IF s.step + 1 >= trackLength
          THEN [s EXCEPT !.step = trackLength - 1, !.fwd = FALSE]
          ELSE [s EXCEPT !.step = s.step + 1])
    ELSE (IF s.step - 1 < 0
          THEN [s EXCEPT !.step = 0, !.fwd = TRUE]
          ELSE [s EXCEPT !.step = s.step - 1])

\* Pingpong of a gate track: the end steps are not played twice
advanceGatePingpong(s, trackLength) ==
    IF s.fwd
    THEN (IF s.step + 1 >= trackLength
          THEN [s EXCEPT !.step = IF trackLength - 2 < 0 THEN 0 ELSE trackLength - 2,
                         !.fwd = FALSE]
          ELSE [s EXCEPT !.step = s.step + 1])
    ELSE (IF s.step - 1 < 0
          THEN [s EXCEPT !.step = IF 1 >= trackLength THEN trackLength - 1 ELSE 1,
                         !.fwd = TRUE]
          ELSE [s EXCEPT !.step = s.step - 1])

\* if (splitPoint >= trackLength) { ... return; }
advanceGateSimple(s, direction, trackLength) ==
    IF direction = 0 THEN [s EXCEPT !.step = wrapForward(s.step, trackLength)]
    ELSE IF direction = 1 THEN [s EXCEPT !.step = wrapBackward(s.step, trackLength)]
    ELSE IF direction = 2 THEN advanceGatePingpong(s, trackLength)
    ELSE s

\* section 1 ends where section 2 starts (variant of section1End)
section1End_Early(splitPoint, trackLength) ==
    IF splitPoint > 1 /\ splitPoint < trackLength THEN splitPoint - 1 ELSE trackLength

\* int section1End = (splitPoint > 0 && splitPoint < trackLength) ? splitPoint : trackLength
section1End(splitPoint, trackLength) ==
    IF splitPoint > 0 /\ splitPoint < trackLength THEN splitPoint ELSE trackLength

\* the fill fires on every repetition of section 1 (variant of fillTriggered)
fillTriggered_AnyRep(s, c, trackLength, splitPoint, sec1Reps, fillStart) ==
    /\ ~s.in2
    /\ splitPoint > 0 /\ splitPoint < trackLength
    /\ fillStart > 0 /\ fillStart < splitPoint
    /\ c >= fillStart

\* the fill trigger on the last repetition of section 1
fillTriggered(s, c, trackLength, splitPoint, sec1Reps, fillStart) ==
    /\ ~s.in2
    /\ splitPoint > 0 /\ splitPoint < trackLength
    /\ fillStart > 0 /\ fillStart < splitPoint
    /\ sec1Reps > 1
    /\ s.c1 = sec1Reps - 1
    /\ c >= fillStart

\* section-based logic of a gate track, Forward
advanceGateForward(s, trackLength, splitPoint, sec1Reps, sec2Reps, fillStart) ==
    LET c == s.step + 1
        restart == IF splitPoint > 0 THEN splitPoint ELSE 0
    IN  IF fillTriggered(s, c, trackLength, splitPoint, sec1Reps, fillStart)
        THEN [s EXCEPT !.c1 = 0, !.in2 = TRUE, !.step = splitPoint]
        ELSE IF ~s.in2 /\ c >= section1End(splitPoint, trackLength)
        THEN (IF repeatsDone(s.c1 + 1, sec1Reps)
              THEN [s EXCEPT !.c1 = 0, !.in2 = TRUE, !.step = restart]
              ELSE [s EXCEPT !.c1 = s.c1 + 1, !.step = 0])
        ELSE IF s.in2 /\ c >= trackLength
        THEN (IF repeatsDone(s.c2 + 1, sec2Reps)
              THEN [s EXCEPT !.c2 = 0, !.in2 = FALSE, !.step = 0]
              ELSE [s EXCEPT !.c2 = s.c2 + 1, !.step = restart])
        ELSE [s EXCEPT !.step = c]

\* section 2 ends one step above the split point (variant of
\* advanceGateBackward)
advanceGateBackward_Inclusive(s, trackLength, splitPoint, sec1Reps, sec2Reps) ==
    LET c == s.step - 1
        end1 == section1End(splitPoint, trackLength)
    IN  IF s.in2 /\ c <= splitPoint
        THEN (IF repeatsDone(s.c2 + 1, sec2Reps)
              THEN [s EXCEPT !.c2 = 0, !.in2 = FALSE, !.step = end1 - 1]
              ELSE [s EXCEPT !.c2 = s.c2 + 1, !.step = trackLength - 1])
        ELSE IF ~s.in2 /\ c < 0
        THEN (IF repeatsDone(s.c1 + 1, sec1Reps)
              THEN [s EXCEPT !.c1 = 0, !.in2 = TRUE, !.step = trackLength - 1]
              ELSE [s EXCEPT !.c1 = s.c1 + 1, !.step = end1 - 1])
        ELSE [s EXCEPT !.step = c]

\* section-based logic of a gate track, Backward
advanceGateBackward(s, trackLength, splitPoint, sec1Reps, sec2Reps) ==
    LET c == s.step - 1
        end1 == section1End(splitPoint, trackLength)
    IN  IF s.in2 /\ c < splitPoint
        THEN (IF repeatsDone(s.c2 + 1, sec2Reps)
              THEN [s EXCEPT !.c2 = 0, !.in2 = FALSE, !.step = end1 - 1]
              ELSE [s EXCEPT !.c2 = s.c2 + 1, !.step = trackLength - 1])
        ELSE IF ~s.in2 /\ c < 0
        THEN (IF repeatsDone(s.c1 + 1, sec1Reps)
              THEN [s EXCEPT !.c1 = 0, !.in2 = TRUE, !.step = trackLength - 1]
              ELSE [s EXCEPT !.c1 = s.c1 + 1, !.step = end1 - 1])
        ELSE [s EXCEPT !.step = c]

\* the fields of the gate track after the call
advancedGateSequencer(s, direction, trackLength, splitPoint, sec1Reps, sec2Reps, fillStart) ==
    IF splitPoint >= trackLength THEN advanceGateSimple(s, direction, trackLength)
    ELSE IF direction = 0
    THEN advanceGateForward(s, trackLength, splitPoint, sec1Reps, sec2Reps, fillStart)
    ELSE IF direction = 1
    THEN advanceGateBackward(s, trackLength, splitPoint, sec1Reps, sec2Reps)
    ELSE IF direction = 2 THEN advanceGatePingpong(s, trackLength)
    ELSE s

\* void advanceGateSequencer(track, direction, trackLength, splitPoint,
\*                           sec1Reps, sec2Reps, fillStart)
advanceGateSequencer(track, direction, trackLength, splitPoint, sec1Reps, sec2Reps, fillStart) ==
    LET t == advancedGateSequencer(gateState(track), direction, trackLength,
                                   splitPoint, sec1Reps, sec2Reps, fillStart)
    IN  /\ gateCurrentStep'     = [gateCurrentStep EXCEPT ![track] = t.step]
        /\ gatePingpongForward' = [gatePingpongForward EXCEPT ![track] = t.fwd]
        /\ gateSection1Counter' = [gateSection1Counter EXCEPT ![track] = t.c1]
        /\ gateSection2Counter' = [gateSection2Counter EXCEPT ![track] = t.c2]
        /\ gateInSection2'      = [gateInSection2 EXCEPT ![track] = t.in2]
        /\ ev' = [op |-> "advanceGateSequencer", i |-> track]
        /\ UNCHANGED << faderVars, cvVars, seqV, gateV, clockVars, uiVars >>

\* ------------------------------------------------------------ construction
\* VFader member initialisers, initializeNoteSettings() and the parameter
\* defaults; the three host parameters may hold any of their enum values.
defaultBottomMidi == 36
defaultTopMidi == 96
defaultTopValue == 100
AllNotes == 0 .. 11
InitNoteSettings ==
    /\ bottomMidi     = [i \in Faders |-> defaultBottomMidi]
    /\ topMidi        = [i \in Faders |-> defaultTopMidi]
    /\ bottomValue    = [i \in Faders |-> 0]
    /\ topValue       = [i \in Faders |-> defaultTopValue]
    /\ chromaticScale = [i \in Faders |-> AllNotes]

InitState ==
    /\ internalFaders       = [i \in Faders |-> 0]
    /\ lastMidiValues       = [i \in Faders |-> Unset]
    /\ physicalFaderPos     = [i \in Faders |-> 0]
    /\ lastPhysicalPos      = [i \in Faders |-> 0]
    /\ pickupPivot          = [i \in Faders |-> Unset]
    /\ pickupStartValue     = [i \in Faders |-> 0]
    /\ inPickupMode         = [i \in Faders |-> FALSE]
    /\ inSlewMode           = [i \in Faders |-> FALSE]
    /\ pickupSettleFrames   = [i \in Faders |-> 0]
    /\ send14bitPhase       = FALSE
    /\ endpointHoldCounter  = [i \in Faders |-> 0]
    /\ displayMode          = [i \in Faders |-> 0]
    /\ InitNoteSettings
    /\ controlAllCount      = [i \in Faders |-> 0]
    /\ controlAllMode       = [i \in Faders |-> 0]
    /\ faderReferenceValues = [i \in Faders |-> One \div 2]
    /\ lastGangValues       = [i \in Faders |-> Unset]
    /\ wire                 = [i \in Faders |-> NoMsg]
    /\ written              = [i \in Faders |-> {}]
    /\ rxMsb                = [i \in Faders |-> -1]
    /\ rxLsb                = [i \in Faders |-> -1]
    /\ ev                   = [op |-> "construct", i |-> 0]
    /\ n                    = 0

\* VSeq::VSeq(): the test pattern of the step values: voltage = 2 + seq +
\* 2 * out, one less on sequencer 1, stored as
\* (int16_t)(voltage / 10 * 65535 - 32768)
testVolts(seq, out) == 2 + seq + 2 * out - (IF seq = 1 THEN 1 ELSE 0)
testPattern(seq, out) ==
    LET twice == testVolts(seq, out) * 13107 - 65536
    IN  IF twice < 0 THEN 0 - ((0 - twice) \div 2) ELSE twice \div 2

Steps == 0 .. 31
Outs == 0 .. 2

\* VSeq::VSeq(): the step values, the pattern of the gate tracks, the edge
\* detector and the selection of the UI
constructPattern == gateSteps = [t \in Tracks |-> [k \in Steps |-> 0]]
constructUi ==
    /\ stepValues = [q \in Seqs |-> [k \in Steps |-> [o \in Outs |-> testPattern(q, o)]]]
    /\ selectedStep = 0
    /\ selectedSeq = 0
    /\ selectedTrack = 0
    /\ lastEncoderRButton = FALSE
    /\ potCaught = [o \in Outs |-> FALSE]
    /\ trackPotCaught = FALSE
constructClock ==
    /\ lastClockIn = 0
    /\ lastResetIn = 0
    /\ gateTriggerCounter = [t \in Tracks |-> 0]

\* the Run parameter of every gate track at its default
defaultRun == gateRun = [t \in Tracks |-> 0]

\* VSeq::VSeq(): the sequencer fields
constructSequencers ==
    /\ currentStep         = [q \in Seqs |-> 0]
    /\ pingpongForward     = [q \in Seqs |-> TRUE]
    /\ section1Counter     = [q \in Seqs |-> 0]
    /\ section2Counter     = [q \in Seqs |-> 0]
    /\ inSection2          = [q \in Seqs |-> FALSE]
    /\ gateCurrentStep     = [t \in Tracks |-> 0]
    /\ gatePingpongForward = [t \in Tracks |-> TRUE]
    /\ gateSection1Counter = [t \in Tracks |-> 0]
    /\ gateSection2Counter = [t \in Tracks |-> 0]
    /\ gateInSection2      = [t \in Tracks |-> FALSE]

\* VSeq::VSeq() and the Run parameters at their default
constructVSeq ==
    /\ constructSequencers
    /\ constructPattern
    /\ constructUi
    /\ constructClock
    /\ defaultRun

\* the parameter defaults of a CV sequencer and of a gate track
defaultLength == 16
defaultSplitPoint == 8
defaultSeqV ==
    [ direction |-> 0, stepCount |-> defaultLength, splitPoint |-> defaultSplitPoint,
      sec1Reps |-> 1, sec2Reps |-> 1 ]
defaultGateV ==
    [ direction |-> 0, trackLength |-> defaultLength, splitPoint |-> 0,
      sec1Reps |-> 1, sec2Reps |-> 1, fillStart |-> 1 ]

\* ------------------------------------------------------------ VSeq: step()
\* void resetSequencer(int seq): its local direction is always 0
resetSequencer(s) == [ step |-> 0, fwd |-> TRUE, c1 |-> 0, c2 |-> 0, in2 |-> FALSE ]

\* the reset handling of a gate track in step()
resetGate(s) == [ step |-> 0, fwd |-> TRUE, c1 |-> 0, c2 |-> 0, in2 |-> FALSE ]

\* a sample of the clock or reset bus is high when it is above 0.5
High(x) == x > One \div 2
\* a high sample counts as an edge whatever came before (variant of risingEdge)
risingEdge_Level(in, last) == High(in)

risingEdge(in, last) == High(in) /\ ~High(last)

\* if (currentStep[seq] >= stepCount) currentStep[seq] = stepCount - 1;
safetyClamp(s, stepCount) ==
    IF s.step >= stepCount THEN [s EXCEPT !.step = stepCount - 1] ELSE s

\* step(): one CV sequencer
steppedSequencer(q, clockTrig, resetTrig) ==
    LET c  == seqV[q]
        s1 == IF resetTrig THEN resetSequencer(seqState(q)) ELSE seqState(q)
        s2 == IF clockTrig
              THEN advancedSequencer(s1, c.direction, c.stepCount, c.splitPoint,
                                     c.sec1Reps, c.sec2Reps)
              ELSE s1
    IN  safetyClamp(s2, c.stepCount)

\* if (isRunning == 0) continue; is the first statement of the loop body: a
\* stopped track skips the reset, the advance and the countdown of its pulse
isRunning(t) == gateRun[t] # 0

\* step(): one gate track that is running
steppedGate(t, clockTrig, resetTrig) ==
    LET c  == gateV[t]
        s1 == IF resetTrig THEN resetGate(gateState(t)) ELSE gateState(t)
    IN  IF clockTrig
        THEN advancedGateSequencer(s1, c.direction, c.trackLength, c.splitPoint,
                                   c.sec1Reps, c.sec2Reps, c.fillStart)
        ELSE s1

\* gateTriggerCounter[track] = 240 on a step that is switched on; then the
\* countdown by the size of the buffer
triggerPulse == 240
steppedTrigger(t, g, clockTrig, numFrames) ==
    LET stepState == IF g.step >= 0 /\ g.step < 32 THEN gateSteps[t][g.step] ELSE 0
        c1 == IF clockTrig /\ stepState > 0 THEN triggerPulse ELSE gateTriggerCounter[t]
    IN  IF c1 > 0 THEN (IF c1 - numFrames < 0 THEN 0 ELSE c1 - numFrames) ELSE c1

\* void step(self, busFrames, numFramesBy4), with the first samples of the
\* clock and the reset bus; the output buses and the MIDI notes are not kept
stepVSeq(clockIn, resetIn, numFrames) ==
    LET clockTrig == risingEdge(clockIn, lastClockIn)
        resetTrig == risingEdge(resetIn, lastResetIn)
        cv   == [q \in Seqs |-> steppedSequencer(q, clockTrig, resetTrig)]
        gate == [t \in Tracks |-> IF isRunning(t)
                                  THEN steppedGate(t, clockTrig, resetTrig)
                                  ELSE gateState(t)]
    IN  /\ lastClockIn' = clockIn
        /\ lastResetIn' = resetIn
        /\ currentStep'     = [q \in Seqs |-> cv[q].step]
        /\ pingpongForward' = [q \in Seqs |-> cv[q].fwd]
        /\ section1Counter' = [q \in Seqs |-> cv[q].c1]
        /\ section2Counter' = [q \in Seqs |-> cv[q].c2]
        /\ inSection2'      = [q \in Seqs |-> cv[q].in2]
        /\ gateCurrentStep'     = [t \in Tracks |-> gate[t].step]
        /\ gatePingpongForward' = [t \in Tracks |-> gate[t].fwd]
        /\ gateSection1Counter' = [t \in Tracks |-> gate[t].c1]
        /\ gateSection2Counter' = [t \in Tracks |-> gate[t].c2]
        /\ gateInSection2'      = [t \in Tracks |-> gate[t].in2]
        /\ gateTriggerCounter'  =
              [t \in Tracks |-> IF isRunning(t)
                                THEN steppedTrigger(t, gate[t], clockTrig, numFrames)
                                ELSE gateTriggerCounter[t]]
        /\ ev' = [op |-> "stepVSeq", i |-> 0]
        /\ UNCHANGED << faderVars, seqV, gateV, gateRun, gateSteps, uiVars >>

\* the host changes the Run parameter of gate track t
setRun(t, v) ==
    /\ gateRun' = [gateRun EXCEPT ![t] = v]
    /\ ev' = [op |-> "setRun", i |-> t]
    /\ UNCHANGED << faderVars, cvVars, gateVars, seqV, gateV, gateSteps,
                    gateTriggerCounter, lastClockIn, lastResetIn, uiVars >>

\* -------------------------------------------------------- VSeq: customUi
\* selectedSeq += delta, clamped to 0..3
clampSeq(q) == IF q < 0 THEN 0 ELSE IF q > 3 THEN 3 ELSE q

\* the left pot catches every position (variant of trackCaught)
trackCaught_Always(potValue, track) == TRUE

\* fabsf(potValue - selectedTrack / 5.0f) < 0.05f
trackTolerance == 50000
trackCaught(potValue, track) == Abs(5 * potValue - track * One) < 5 * trackTolerance

\* 0.00-0.10 = track 0, 0.10-0.30 = track 1, ..., from 0.90 = track 5
trackOfPot(potValue) ==
    IF 10 * potValue < One THEN 0
    ELSE IF 10 * potValue < 3 * One THEN 1
    ELSE IF 10 * potValue < 5 * One THEN 2
    ELSE IF 10 * potValue < 7 * One THEN 3
    ELSE IF 10 * potValue < 9 * One THEN 4
    ELSE 5

\* selectedStep += delta, wrapped to 0 .. length - 1
wrapSelectedStep(k, length) ==
    LET k1 == IF k < 0 THEN length - 1 ELSE k
    IN  IF k1 >= length THEN 0 ELSE k1

\* (value + 32768) / 65535.0f
fullInt16 == 65535
halfInt16 == 32768
normalized(value) == MulDiv(value + halfInt16, One, fullInt16)

\* fabsf(potValue - currentNormalized) < 0.02f
potTolerance == 20000
potCatches(potValue, value) == Abs(potValue - normalized(value)) < potTolerance

\* (int16_t)((potValue * 65535.0f) - 32768): the conversion truncates
\* towards zero
toInt16(potValue) ==
    LET whole == MulDiv(potValue, fullInt16, One)
        rest  == (((potValue \div Kilo) * fullInt16 % Kilo) * Kilo
                  + (potValue % Kilo) * fullInt16) % One
    IN  IF whole >= halfInt16 \/ rest = 0 THEN whole - halfInt16
        ELSE whole + 1 - halfInt16

\* the left encoder: the sequencer selected, the step clamped to its length,
\* and the catch of the track pot cleared on entering the gate sequencer
uiAfterEncoderL(delta) ==
    LET q == IF delta # 0 THEN clampSeq(selectedSeq + delta) ELSE selectedSeq
        newLength == IF q = 3 THEN gateV[selectedTrack].trackLength
                     ELSE seqV[q].stepCount
    IN  [ seq    |-> q,
          step   |-> IF q # selectedSeq /\ selectedStep >= newLength
                     THEN newLength - 1 ELSE selectedStep,
          caught |-> IF q # selectedSeq /\ q = 3 THEN FALSE ELSE trackPotCaught ]

\* gate mode, the left pot: track selection with catch
uiAfterTrackPot(u, potValue) ==
    LET caught   == u.caught \/ trackCaught(potValue, selectedTrack)
        newTrack == trackOfPot(potValue)
        length   == gateV[newTrack].trackLength
    IN  IF potValue = Unset THEN [ track |-> selectedTrack, step |-> u.step, caught |-> u.caught ]
        ELSE IF caught /\ newTrack # selectedTrack
        THEN [ track |-> newTrack,
               step |-> IF u.step >= length THEN length - 1 ELSE u.step,
               caught |-> FALSE ]
        ELSE [ track |-> selectedTrack, step |-> u.step, caught |-> caught ]

\* customUi in gate mode: track pot, right encoder, right encoder button
customUiGate(u, delta, potL, button) ==
    LET w == uiAfterTrackPot(u, potL)
        k == IF delta # 0
             THEN wrapSelectedStep(w.step + delta, gateV[w.track].trackLength)
             ELSE w.step
    IN  /\ selectedSeq' = 3
        /\ selectedTrack' = w.track
        /\ trackPotCaught' = w.caught
        /\ selectedStep' = k
        /\ gateSteps' = IF button /\ ~lastEncoderRButton
                        THEN [gateSteps EXCEPT ![w.track][k] = (@ + 1) % 3]
                        ELSE gateSteps
        /\ lastEncoderRButton' = button
        /\ UNCHANGED << stepValues, potCaught >>

\* customUi in CV mode: right encoder, then the three pots with catch
customUiCv(u, delta, pots) ==
    LET k == IF delta # 0
             THEN wrapSelectedStep(u.step + delta, seqV[u.seq].stepCount)
             ELSE u.step
        before(o) == IF delta # 0 THEN FALSE ELSE potCaught[o]
        moved(o)  == pots[o] # Unset
        caught(o) == before(o) \/ (moved(o) /\ potCatches(pots[o], stepValues[u.seq][k][o]))
    IN  /\ selectedSeq' = u.seq
        /\ selectedStep' = k
        /\ trackPotCaught' = u.caught
        /\ potCaught' = [o \in Outs |-> caught(o)]
        /\ stepValues' = [stepValues EXCEPT ![u.seq][k] =
                            [o \in Outs |-> IF moved(o) /\ caught(o)
                                            THEN toInt16(pots[o]) ELSE @[o]]]
        /\ UNCHANGED << selectedTrack, gateSteps, lastEncoderRButton >>

\* void customUi(self, data): encoders[0], encoders[1], the pots whose
\* control bit is set (Unset: not moved) and the right encoder button
customUiVSeq(encL, encR, pots, button) ==
    LET u == uiAfterEncoderL(encL)
    IN  /\ IF u.seq = 3 THEN customUiGate(u, encR, pots[0], button)
           ELSE customUiCv(u, encR, pots)
        /\ ev' = [op |-> "customUiVSeq", i |-> 0, potL |-> pots[0]]
        /\ UNCHANGED << faderVars, cvVars, gateVars, seqV, gateV, gateRun,
                        gateTriggerCounter, lastClockIn, lastResetIn >>

\* a VSeq as constructed, with its parameters at their defaults
InitVSeq ==
    /\ constructVSeq
    /\ seqV  = [q \in Seqs |-> defaultSeqV]
    /\ gateV = [t \in Tracks |-> defaultGateV]

\* a VFader as constructed, with its parameters at their defaults
InitVFader ==
    /\ InitState
    /\ midiMode = 1
    /\ pickupMode = 1
    /\ driftLevel = 0

\* ----------------------------------------------- specification: the resolver
\* Samples delivered to fader 0 under either pickup policy.
\* 0, 0.04, 0.10, 0.20, 0.30, 0.50, 0.90, 1.0 as parameter values.
PickupSamples == {0, 655, 1638, 3277, 4916, 8192, 14745, 16383}

InitPickup ==
    /\ InitState
    /\ InitVSeq
    /\ midiMode = 1
    /\ pickupMode \in {0, 1}
    /\ driftLevel = 0

SampleFader0 == \E p \in PickupSamples : parameterChanged(0, p) /\ UNCHANGED n

NextPickup == SampleFader0

SpecPickup == InitPickup /\ [][NextPickup]_vars

\* ---------------------------------------- specification: switching the policy
\* The Pickup Mode parameter is set to v: parameterChanged has no branch for
\* it, the next sample reads the new policy.
setPickupMode(v) ==
    /\ pickupMode' = v
    /\ ev' = [op |-> "policy", i |-> 0]
    /\ UNCHANGED << chanVars, encVars, gangVars, cfgVars, midiMode, driftLevel,
                    obsVars, seqVars >>

\* Samples on fader 0 as in the resolver specification, and the policy is
\* switched between Scaled and Catch at any moment.
SwitchPolicy == setPickupMode(1 - pickupMode) /\ UNCHANGED n

NextPolicy == SampleFader0 \/ SwitchPolicy

SpecPolicy == InitPickup /\ [][NextPolicy]_vars

\* ----------------------------------------------- specification: the encoder
\* In 14-bit mode, fader 0 takes the values 0, 0.005, 0.5, 0.995 and 1.0 from
\* preset loads and is encoded by step(); its display mode can be toggled and
\* the drift lock is at any of its levels.
LoadValues == {0, 5000, 500000, 995000, One}

InitEncoder ==
    /\ InitState
    /\ InitVSeq
    /\ midiMode = 1
    /\ pickupMode = 1
    /\ driftLevel \in {0, 1, 2}

LoadFader0 ==
    /\ \E x \in LoadValues : deserialise([internalFaders EXCEPT ![0] = x])
    /\ UNCHANGED n
Tick == step /\ UNCHANGED n
ToggleDisplay == customUiDisplayMode(0) /\ UNCHANGED n

NextEncoder == LoadFader0 \/ Tick \/ ToggleDisplay

SpecEncoder == InitEncoder /\ [][NextEncoder]_vars

\* ------------------------------------------ specification: the wire format
\* Either MIDI mode, drift control off: preset loads move fader 0 over the
\* whole range, its display mode is toggled, and step() encodes all faders.
WireValues == {0, 9000, 250000, 995000, One}

InitWire ==
    /\ InitState
    /\ InitVSeq
    /\ midiMode \in {0, 1}
    /\ pickupMode = 1
    /\ driftLevel = 0

LoadWire ==
    /\ \E x \in WireValues : deserialise([internalFaders EXCEPT ![0] = x])
    /\ UNCHANGED n

NextWire == LoadWire \/ Tick \/ ToggleDisplay

SpecWire == InitWire /\ [][NextWire]_vars

\* --------------------------------------- specification: the convergence drive
\* The scenario of the convergence property under Catch policy: the value is
\* brought to 0.20 by a sweep, the control jumps to 0.90 (pickup is entered),
\* and the control is then driven monotonically from 0.90 down to 0.20, where
\* it stays.
MaxDrive == 12

SetupScript == << 1638, 3277, 14745 >>           \* 0.10, 0.20, 0.90
DriveSamples == {14745, 11468, 8192, 6553, 4916, 4096, 3277}
DriveTarget == SetupScript[2]                     \* 0.20

InitConverge ==
    /\ InitState
    /\ InitVSeq
    /\ midiMode = 1
    /\ pickupMode = 1
    /\ driftLevel = 0

SetupSample ==
    /\ n < Len(SetupScript)
    /\ parameterChanged(0, SetupScript[n + 1])
    /\ n' = n + 1

DriveSample ==
    /\ n >= Len(SetupScript)
    /\ n < Len(SetupScript) + MaxDrive
    /\ \E p \in DriveSamples :
          /\ scaleParam(p) <= physicalFaderPos[0]
          /\ parameterChanged(0, p)
    /\ n' = n + 1

NextConverge == SetupSample \/ DriveSample

SpecConverge == InitConverge /\ [][NextConverge]_vars

\* ------------------------------------------------- specification: the gangs
\* The gang page edits control counts and modes of any fader, the first two
\* faders are moved a bounded number of times to 0.04 or 0.10, and step()
\* propagates and encodes in 7-bit mode.
MaxMoves == 2

Movers == {0, 1}

GangSamples == {655, 1638}

InitGang ==
    /\ InitState
    /\ InitVSeq
    /\ midiMode = 0
    /\ pickupMode = 1
    /\ driftLevel = 0

EditCount ==
    /\ \E f \in Faders, d \in {0 - 1, 1} : customUiControlCount(f, d)
    /\ UNCHANGED n
EditMode ==
    /\ \E f \in Faders : controlAllCount[f] > 0 /\ customUiControlMode(f)
    /\ UNCHANGED n
MoveFader ==
    /\ n < MaxMoves
    /\ \E i \in Movers, p \in GangSamples : parameterChanged(i, p)
    /\ n' = n + 1

NextGang == EditCount \/ EditMode \/ MoveFader \/ Tick

SpecGang == InitGang /\ [][NextGang]_vars

\* ------------------------------------------- specification: drift control
\* Any drift level, either MIDI mode: a bounded number of samples on fader 0
\* that lie 0.27% and 0.64% apart, display-mode toggles, and step().
DriftSamples == {655, 700, 760}

InitDrift ==
    /\ InitState
    /\ InitVSeq
    /\ midiMode \in {0, 1}
    /\ pickupMode = 1
    /\ driftLevel \in {0, 1, 2}

FeedDrift ==
    /\ n < MaxMoves
    /\ \E p \in DriftSamples : parameterChanged(0, p)
    /\ n' = n + 1

NextDrift == FeedDrift \/ Tick \/ ToggleDisplay

SpecDrift == InitDrift /\ [][NextDrift]_vars

\* ------------------------------------- specification: repeated equal samples
\* The first two faders receive a bounded number of samples, 0 or 0.04 (the
\* same one again or the other), fader 0 can be made a gang leader, and step()
\* propagates and encodes, in 7-bit or 14-bit mode.
RepeatSamples == {0, 655}

InitRepeat ==
    /\ InitState
    /\ InitVSeq
    /\ midiMode \in {0, 1}
    /\ pickupMode = 1
    /\ driftLevel = 0

EditGang0 ==
    /\ \E d \in {0 - 1, 1} : customUiControlCount(0, d)
    /\ UNCHANGED n
FeedSample ==
    /\ n < MaxMoves
    /\ \E i \in Movers, p \in RepeatSamples : parameterChanged(i, p)
    /\ n' = n + 1

NextRepeat == EditGang0 \/ FeedSample \/ Tick

SpecRepeat == InitRepeat /\ [][NextRepeat]_vars

\* ------------------------------------------- specification: after a reset
\* From construction, in any MIDI mode, pickup policy and drift level, fader 0
\* is fed the sample 0.5 before each of ScenarioTicks ticks.
ScenarioTicks == 8

InitReset ==
    /\ InitState
    /\ InitVSeq
    /\ midiMode \in {0, 1}
    /\ pickupMode \in {0, 1}
    /\ driftLevel \in {0, 1, 2}

FeedHalf ==
    /\ n < 2 * ScenarioTicks
    /\ n % 2 = 0
    /\ parameterChanged(0, (ParamMax + 1) \div 2)
    /\ n' = n + 1
TickAfterFeed ==
    /\ n % 2 = 1
    /\ step
    /\ n' = n + 1

NextReset == FeedHalf \/ TickAfterFeed

SpecReset == InitReset /\ [][NextReset]_vars

\* --------------------------------------------- specification: a leader sweep
\* A preset load puts followers 1 and 2 at 0.3 and 0.8 (values alone, or
\* values and references), the control count of fader 0 is raised one by one
\* in either gang mode, a bounded number of preset loads sweep the leader over
\* 0, 0.5, 0.75 and 1.0, and step() propagates and encodes in 7-bit mode.
MaxLoads == 2

LeaderLoads == {0, Half, Half + Half \div 2, One}

FollowerLoads == {3 * (One \div 10), 8 * (One \div 10)}

InitSweep ==
    /\ InitState
    /\ InitVSeq
    /\ midiMode = 0
    /\ pickupMode = 1
    /\ driftLevel = 0

LoadFollowers ==
    /\ n = 0
    /\ \E a \in FollowerLoads : \E b \in FollowerLoads \ {a} :
          LET faders == [i \in Faders |-> IF i = 1 THEN a
                                          ELSE IF i = 2 THEN b
                                          ELSE internalFaders[i]]
              refs   == [i \in Faders |-> IF i = 1 THEN a
                                          ELSE IF i = 2 THEN b
                                          ELSE faderReferenceValues[i]]
          IN  deserialise(faders) \/ deserialiseWithRefs(faders, refs)
    /\ n' = 1
LoadLeader ==
    /\ n >= 1
    /\ n <= MaxLoads
    /\ \E x \in LeaderLoads : deserialise([internalFaders EXCEPT ![0] = x])
    /\ n' = n + 1
EditLeader0 ==
    /\ n >= 1
    /\ customUiControlCount(0, 1)
    /\ UNCHANGED n
ToggleMode0 ==
    /\ n >= 1
    /\ customUiControlMode(0)
    /\ UNCHANGED n

NextSweep == LoadFollowers \/ LoadLeader \/ EditLeader0 \/ ToggleMode0 \/ Tick

SpecSweep == InitSweep /\ [][NextSweep]_vars

\* ------------------------------------------ specification: a leader excursion
\* Follower 1 is set by its control to 0.04 or 0.10, the leader is loaded at
\* 0.5, fader 0 is made a Relative leader of fader 1, and step() runs; the
\* leader is then loaded at one or two other positions and back at 0.5, with
\* a step() after each load.  The follower's control is not touched again.
TripSamples == {655, 1638}

Excursions == {0, Half \div 2, Half + Half \div 2, One}

TripLoads(k) ==
    IF k = 1 \/ k = 9 THEN {Half}
    ELSE IF k = 5 THEN Excursions
    ELSE IF k = 7 THEN Excursions \cup {Half}
    ELSE {}

SetFollower ==
    /\ n = 0
    /\ \E p \in TripSamples : parameterChanged(1, p)
    /\ n' = 1
LoadTrip ==
    /\ n = 1 => (~inPickupMode[1] /\ internalFaders[1] = physicalFaderPos[1])
    /\ \E x \in TripLoads(n) : deserialise([internalFaders EXCEPT ![0] = x])
    /\ n' = n + 1
MakeTripGang ==
    /\ n = 2
    /\ customUiControlCount(0, 1)
    /\ n' = 3
SetRelative ==
    /\ n = 3
    /\ customUiControlMode(0)
    /\ n' = 4
TickTrip ==
    /\ n \in {4, 6, 8, 10}
    /\ step
    /\ n' = n + 1

NextTrip == SetFollower \/ LoadTrip \/ MakeTripGang \/ SetRelative \/ TickTrip

SpecTrip == InitSweep /\ [][NextTrip]_vars

\* ------------------------------------- specification: wrapping without sections
\* CV sequencer 0 and gate track 0 get settings without sections (splitPoint
\* >= length), Forward or Backward, and are advanced any number of times.
MaxSteps == 4

SimpleSeqV ==
    { c \in [ direction : {0, 1}, stepCount : 1 .. MaxSteps, splitPoint : 1 .. MaxSteps,
              sec1Reps : {1}, sec2Reps : {1} ] : c.splitPoint >= c.stepCount }
SimpleGateV ==
    { c \in [ direction : {0, 1}, trackLength : 1 .. MaxSteps,
              splitPoint : 1 .. MaxSteps, sec1Reps : {1}, sec2Reps : {1},
              fillStart : {0, 1} ] : c.splitPoint >= c.trackLength }

InitAdvance ==
    /\ InitVFader
    /\ constructVSeq
    /\ \E c \in SimpleSeqV : seqV = [q \in Seqs |-> IF q = 0 THEN c ELSE defaultSeqV]
    /\ \E c \in SimpleGateV :
          gateV = [t \in Tracks |-> IF t = 0 THEN c ELSE defaultGateV]

AdvanceSeq0 ==
    /\ LET c == seqV[0]
       IN  advanceSequencer(0, c.direction, c.stepCount, c.splitPoint,
                            c.sec1Reps, c.sec2Reps)
    /\ UNCHANGED n
AdvanceGate0 ==
    /\ LET c == gateV[0]
       IN  advanceGateSequencer(0, c.direction, c.trackLength, c.splitPoint,
                                c.sec1Reps, c.sec2Reps, c.fillStart)
    /\ UNCHANGED n

NextAdvance == AdvanceSeq0 \/ AdvanceGate0

SpecAdvance == InitAdvance /\ [][NextAdvance]_vars

\* ------------------------------------------ specification: a CV sequencer
\* CV sequencer 0 gets any settings and is advanced any number of times; in
\* Forward direction with sections n counts the advances made within the
\* current cycle of the two sections, and in Pingpong direction the advances
\* made within the current round trip of a sequencer without sections.
MaxReps == 2

AllSeqV ==
    [ direction : 0 .. 2, stepCount : 1 .. MaxSteps, splitPoint : 1 .. MaxSteps,
      sec1Reps : 1 .. MaxReps, sec2Reps : 1 .. MaxReps ]

\* the advances one cycle takes: section 1 sec1Reps times, section 2 sec2Reps times
cycleLength(length, splitPoint, sec1Reps, sec2Reps) ==
    splitPoint * sec1Reps + (length - splitPoint) * sec2Reps

SectionsForward(c) == c.direction = 0 /\ c.splitPoint < c.stepCount

\* the advances of one Pingpong round trip that plays both end steps twice
roundTrip(length) == 2 * length

InitSeq ==
    /\ InitVFader
    /\ constructVSeq
    /\ \E c \in AllSeqV : seqV = [q \in Seqs |-> IF q = 0 THEN c ELSE defaultSeqV]
    /\ gateV = [t \in Tracks |-> defaultGateV]

AdvanceSeqCycle ==
    LET c == seqV[0]
    IN  /\ advanceSequencer(0, c.direction, c.stepCount, c.splitPoint,
                            c.sec1Reps, c.sec2Reps)
        /\ n' = IF SectionsForward(c)
                THEN (n + 1) % cycleLength(c.stepCount, c.splitPoint,
                                           c.sec1Reps, c.sec2Reps)
                ELSE IF c.direction = 2 THEN (n + 1) % roundTrip(c.stepCount)
                ELSE n

NextSeq == AdvanceSeqCycle

SpecSeq == InitSeq /\ [][NextSeq]_vars

\* --------------------------------------------- specification: a gate track
\* Gate track 0 gets any settings and is advanced any number of times; in
\* Forward direction with sections and no fill n counts the advances made
\* within the current cycle of the two sections, and in Pingpong direction
\* the advances made within the current round trip of a track without
\* sections.
AllGateV ==
    [ direction : 0 .. 2, trackLength : 1 .. MaxSteps, splitPoint : 0 .. MaxSteps,
      sec1Reps : 1 .. MaxReps, sec2Reps : 1 .. MaxReps, fillStart : 0 .. MaxSteps ]

\* the advances of one Pingpong round trip that plays no end step twice
bounceTrip(length) == IF length = 1 THEN 1 ELSE 2 * length - 2

FillOff(c) == ~(c.fillStart > 0 /\ c.fillStart < c.splitPoint /\ c.sec1Reps > 1)
GateSectionsForward(c) ==
    c.direction = 0 /\ 0 < c.splitPoint /\ c.splitPoint < c.trackLength /\ FillOff(c)

InitGate ==
    /\ InitVFader
    /\ constructVSeq
    /\ seqV = [q \in Seqs |-> defaultSeqV]
    /\ \E c \in AllGateV : gateV = [t \in Tracks |-> IF t = 0 THEN c ELSE defaultGateV]

AdvanceGateCycle ==
    LET c == gateV[0]
    IN  /\ advanceGateSequencer(0, c.direction, c.trackLength, c.splitPoint,
                                c.sec1Reps, c.sec2Reps, c.fillStart)
        /\ n' = IF GateSectionsForward(c)
                THEN (n + 1) % cycleLength(c.trackLength, c.splitPoint,
                                           c.sec1Reps, c.sec2Reps)
                ELSE IF c.direction = 2 THEN (n + 1) % bounceTrip(c.trackLength)
                ELSE n

NextGate == AdvanceGateCycle

SpecGate == InitGate /\ [][NextGate]_vars

\* ------------------------------------ specification: settings that change
\* CV sequencer 0 keeps its step count and split point, gate track 0 its
\* length, split point and fill start; every advance is made with any
\* direction and any repeat counts.  Either the sequencer or the track is
\* advanced, as chosen at the start.
BoundSeqV ==
    { c \in AllSeqV : c.direction = 0 /\ c.sec1Reps = 1 /\ c.sec2Reps = 1 }

BoundGateV ==
    { c \in AllGateV : c.direction = 0 /\ c.sec1Reps = 1 /\ c.sec2Reps = 1 }

InitBounds ==
    /\ InitVFader
    /\ constructVSeq
    /\ \/ /\ \E c \in BoundSeqV : seqV = [q \in Seqs |-> IF q = 0 THEN c ELSE defaultSeqV]
          /\ gateV = [t \in Tracks |-> defaultGateV]
       \/ /\ seqV = [q \in Seqs |-> defaultSeqV]
          /\ \E c \in BoundGateV : gateV = [t \in Tracks |-> IF t = 0 THEN c ELSE defaultGateV]

AdvanceSeqAny ==
    /\ seqV[0] # defaultSeqV
    /\ \E direction \in 0 .. 2, sec1Reps \in 1 .. MaxReps, sec2Reps \in 1 .. MaxReps :
          advanceSequencer(0, direction, seqV[0].stepCount, seqV[0].splitPoint,
                           sec1Reps, sec2Reps)
    /\ UNCHANGED n
AdvanceGateAny ==
    /\ gateV[0] # defaultGateV
    /\ \E direction \in 0 .. 2, sec1Reps \in 1 .. MaxReps, sec2Reps \in 1 .. MaxReps :
          advanceGateSequencer(0, direction, gateV[0].trackLength, gateV[0].splitPoint,
                               sec1Reps, sec2Reps, gateV[0].fillStart)
    /\ UNCHANGED n

NextBounds == AdvanceSeqAny \/ AdvanceGateAny

SpecBounds == InitBounds /\ [][NextBounds]_vars

\* ------------------------------------- specification: clock and reset
\* Every CV sequencer and every gate track gets the same settings and the
\* same direction, gate track 0 has a pattern loaded, the Run parameter of
\* gate track 0 is toggled at any time, and step() is called with any levels
\* on the clock and the reset bus.
ClockSeqV ==
    [ direction : 0 .. 2, stepCount : {MaxSteps - 1}, splitPoint : {2, MaxSteps - 1},
      sec1Reps : {1}, sec2Reps : {MaxReps} ]
ClockGateV ==
    [ direction : 0 .. 2, trackLength : {MaxSteps - 1}, splitPoint : {0, 2},
      sec1Reps : {MaxReps}, sec2Reps : {1}, fillStart : {1} ]
Levels == {Half, One}
FrameCounts == {128}
LoadedPatterns == { [k \in Steps |-> 0], [k \in Steps |-> IF k = 1 THEN 1 ELSE 0] }
RunTracks == {0}

InitClock ==
    /\ InitVFader
    /\ constructSequencers
    /\ constructUi
    /\ constructClock
    /\ defaultRun
    /\ \E c \in ClockSeqV :
          /\ seqV = [q \in Seqs |-> c]
          /\ \E g \in ClockGateV :
                /\ g.direction = c.direction
                /\ gateV = [t \in Tracks |-> g]
    /\ \E p \in LoadedPatterns :
          gateSteps = [t \in Tracks |-> IF t = 0 THEN p ELSE [k \in Steps |-> 0]]

StepClock ==
    /\ \E clockIn \in Levels, resetIn \in Levels, numFrames \in FrameCounts :
          stepVSeq(clockIn, resetIn, numFrames)
    /\ UNCHANGED n
ToggleRun ==
    /\ \E t \in RunTracks : setRun(t, 1 - gateRun[t])
    /\ UNCHANGED n

NextClock == StepClock \/ ToggleRun

SpecClock == InitClock /\ [][NextClock]_vars

\* ------------------------------------------ specification: the track pot
\* The gate tracks have 2 steps (even tracks) or 1 step (odd tracks) and the
\* CV sequencers 2 steps. customUi is called with any turn of the two
\* encoders; the left pot is moved only on calls that end in gate mode, the
\* other pots are not moved, and the button is pressed only while track 0 or
\* track 1 is selected.
TrackPots == { 0, 40000, 220000, 260000, 450000, 620000, 850000, 970000, One }
TrackGateV == [t \in Tracks |-> [defaultGateV EXCEPT !.trackLength = 2 - (t % 2)]]
TrackSeqV == [q \in Seqs |-> [defaultSeqV EXCEPT !.stepCount = 2]]

InitTrack ==
    /\ InitVFader
    /\ constructVSeq
    /\ seqV = TrackSeqV
    /\ gateV = TrackGateV

TurnEncoders ==
    /\ \E encL \in {-1, 0, 1}, encR \in {0, 1} :
          customUiVSeq(encL, encR, [o \in Outs |-> Unset], FALSE)
    /\ UNCHANGED n
MoveTrackPot ==
    /\ \E encL \in {0, 1}, potL \in TrackPots :
          /\ clampSeq(selectedSeq + encL) = 3
          /\ customUiVSeq(encL, 0, [o \in Outs |-> IF o = 0 THEN potL ELSE Unset], FALSE)
    /\ UNCHANGED n
PressButton ==
    /\ selectedTrack \in {0, 1}
    /\ \E button \in BOOLEAN :
          customUiVSeq(0, 0, [o \in Outs |-> Unset], button)
    /\ UNCHANGED n

NextTrack == TurnEncoders \/ MoveTrackPot \/ PressButton

SpecTrack == InitTrack /\ [][NextTrack]_vars

\* ------------------------------------------ specification: the CV pot catch
\* Sequences of two steps whose step values are the test pattern (left pot
\* output at 0.2 for sequencers 0 and 1, at 0.4 for sequencer 2): the left
\* encoder selects the sequencer or the gate mode, the right encoder the
\* step, and in CV mode the left pot is moved to 0.2 or to 0.7.
CatchPots == {200000, 700000}

TurnLeft ==
    /\ \E encL \in {-1, 1} : customUiVSeq(encL, 0, [o \in Outs |-> Unset], FALSE)
    /\ UNCHANGED n
TurnRight ==
    /\ customUiVSeq(0, 1, [o \in Outs |-> Unset], FALSE)
    /\ UNCHANGED n
MovePotL ==
    /\ selectedSeq # 3
    /\ \E potL \in CatchPots :
          customUiVSeq(0, 0, [o \in Outs |-> IF o = 0 THEN potL ELSE Unset], FALSE)
    /\ UNCHANGED n

NextCatch == TurnLeft \/ TurnRight \/ MovePotL

SpecCatch == InitTrack /\ [][NextCatch]_vars

\* --------------------------------------- specification: the value range
\* Either pickup policy, 7-bit mode: a bounded number of samples at 0, 0.04,
\* 0.969 and 1.0 on faders 0 and 1, fader 0 made the leader of one and then of
\* two faders at any time in either control mode, and step() propagating and
\* encoding after a sample.
MaxSamples == 3

RangeSamples == {0, 655, 15880, 16383}

InitRange ==
    /\ InitState
    /\ InitVSeq
    /\ midiMode = 0
    /\ pickupMode \in {0, 1}
    /\ driftLevel = 0

SampleRange ==
    /\ n < MaxSamples
    /\ \E i \in Movers, p \in RangeSamples : parameterChanged(i, p)
    /\ n' = n + 1
MakeGang0 ==
    /\ controlAllCount[0] < 2
    /\ customUiControlCount(0, 1)
    /\ UNCHANGED n
ToggleGang0 ==
    /\ controlAllCount[0] > 0
    /\ customUiControlMode(0)
    /\ UNCHANGED n

TickRange ==
    /\ ev.op = "param"
    /\ step
    /\ UNCHANGED n

NextRange == SampleRange \/ MakeGang0 \/ ToggleGang0 \/ TickRange

SpecRange == InitRange /\ [][NextRange]_vars

\* ================================================================= properties

\* the value of the parameter sample p as parameterChanged stores it
Sample(p) == applyDeadzone(scaleParam(p))

\* a sample on fader i has just been processed
Sampled(i) == ev'.op = "param" /\ ev'.i = i

\* the sample left pickup through the fling-to-absolute exit (no settle delay)
FlingExit(i) == ~inPickupMode'[i] /\ pickupSettleFrames'[i] = 0

\* C1 -- No-jump: on every sample processed while a channel is in the Catching
\* state (inPickupMode and inSlewMode set, Catch policy) the held value changes
\* by at most the slew rate, except through the fling-to-absolute exit.
C1_NoJumpWhileCatching ==
    [][ \A i \in Faders :
          (Sampled(i) /\ pickupMode = 1 /\ inPickupMode[i] /\ inSlewMode[i]
             /\ ~FlingExit(i))
          => Abs(internalFaders'[i] - internalFaders[i]) <= slewRate ]_vars

\* C2 -- Convergence: under Catch policy, from value 0.20 with the control at
\* 0.90 in pickup, once the control has been driven monotonically down to 0.20
\* and the drive is over, the channel is back in the Absolute state with the
\* value within 0.2% of the control.
DriveOver ==
    /\ n = Len(SetupScript) + MaxDrive
    /\ physicalFaderPos[0] = Sample(DriveTarget)
    /\ lastPhysicalPos[0] = Sample(DriveTarget)

C2_ConvergesToAbsolute ==
    DriveOver =>
        /\ ~inPickupMode[0]
        /\ Abs(internalFaders[0] - physicalFaderPos[0]) <= 2000

\* C3 -- Pickup entry: from the Absolute state with the settle
\* countdown expired, a sample whose coarse mismatch with the held value is
\* more than 10% (above 50 of the 500 steps) puts the channel into pickup,
\* records pivot = physical and pickupStartValue = value, and leaves the value
\* unchanged on that sample.
EntersPickup(i) ==
    /\ inPickupMode'[i]
    /\ pickupPivot'[i] = physicalFaderPos'[i]
    /\ pickupStartValue'[i] = internalFaders[i]
    /\ internalFaders'[i] = internalFaders[i]

C3_EntryAboveTenPercent ==
    [][ \A i \in Faders :
          (Sampled(i) /\ ~inPickupMode[i] /\ pickupSettleFrames[i] = 0
             /\ coarseMismatchOf(physicalFaderPos'[i], internalFaders[i]) > 50)
          => EntersPickup(i) ]_vars

\* C3, as the specification words it -- the same with a mismatch of at least 10% (50 steps or more).
C3_EntryAtLeastTenPercent ==
    [][ \A i \in Faders :
          (Sampled(i) /\ ~inPickupMode[i] /\ pickupSettleFrames[i] = 0
             /\ coarseMismatchOf(physicalFaderPos'[i], internalFaders[i]) >= 50)
          => EntersPickup(i) ]_vars

\* C3 witness: value 0.20, control jumped to 0.90, pickup just entered.
C3_Witness ==
    /\ ev.op = "param"
    /\ inPickupMode[0]
    /\ pickupStartValue[0] = Sample(3277)
    /\ pickupPivot[0] = Sample(14745)
    /\ physicalFaderPos[0] = Sample(14745)
    /\ internalFaders[0] = Sample(3277)

\* ------------------------------------------------------- the 14-bit encoder
\* a step() has just run
Ticked == ev'.op = "step"

\* the 14-bit integer the changed-value branch sends for a last-sent value x
sentFull(i, x) == full14(i, x).full

\* C4 -- 14-bit consistency: in 14-bit mode, a tick that sets lastMidiValues[i]
\* to a new value is an LSB-phase tick, and by the end of that tick the latest
\* MSB and the latest LSB the channel emitted are the two halves of that value.
C4_SyncAfterBothHalves ==
    [][ \A i \in Faders :
          (Ticked /\ midiMode = 1 /\ lastMidiValues'[i] # lastMidiValues[i])
          => /\ send14bitPhase
             /\ rxLsb'[i] = lsbOf(sentFull(i, lastMidiValues'[i]))
             /\ rxMsb'[i] = msbOf(sentFull(i, lastMidiValues'[i])) ]_vars

\* the tick encodes fader i resting at 1.0
TickAtTop(i) ==
    Ticked /\ midiMode = 1 /\ internalFaders[i] = One /\ internalFaders'[i] = One

\* the tick is the first one to see the change 0.0 -> 1.0: it sends the half
\* of 16383 the phase selects and moves lastMidiValues only on the LSB phase
FirstTickOfPair(i) ==
    lastMidiValues[i] = 0
    => /\ wire'[i] = halfMessage(i, fullScale, send14bitPhase)
       /\ wire'[i].val = midiTop
       /\ (lastMidiValues'[i] = One) <=> send14bitPhase
       /\ (~send14bitPhase) => lastMidiValues'[i] = lastMidiValues[i]

\* the tick follows a tick that encoded a change to 1.0 (which armed the hold
\* counter): the two ticks sent one MSB (CC i, 127) and one LSB (CC i+32, 127)
SecondTickOfPair(i) ==
    (ev.op = "step" /\ endpointHoldCounter[i] = holdFrames)
    => /\ wire[i]  = halfMessage(i, fullScale, ~send14bitPhase)
       /\ wire'[i] = halfMessage(i, fullScale, send14bitPhase)
       /\ wire'[i].val = midiTop /\ wire[i].val = midiTop
       /\ lastMidiValues'[i] # lastMidiValues[i] => send14bitPhase

\* C5 -- 14-bit pairing, for a channel in Number display mode: when the value
\* changes from 0.0 to 1.0, the two ticks that follow emit exactly one MSB
\* message (CC i, 127) and one LSB message (CC i+32, 127), and lastMidiValues
\* is updated only on the LSB tick.
C5_PairInNumberMode ==
    [][ \A i \in Faders :
          (TickAtTop(i) /\ displayMode[i] = 0)
          => (FirstTickOfPair(i) /\ SecondTickOfPair(i)) ]_vars

\* C5, as the specification words it -- the same for a channel in any display mode.
C5_PairInAnyMode ==
    [][ \A i \in Faders :
          TickAtTop(i) => (FirstTickOfPair(i) /\ SecondTickOfPair(i)) ]_vars

\* C5 witness: the LSB of 1.0 has just gone out after its MSB, both 127.
C5_Witness ==
    /\ ev.op = "step"
    /\ displayMode[0] = 0
    /\ internalFaders[0] = One
    /\ lastMidiValues[0] = One
    /\ wire[0] = halfMessage(0, fullScale, TRUE)
    /\ rxMsb[0] = midiTop /\ rxLsb[0] = midiTop
    /\ endpointHoldCounter[0] = holdFrames

\* the value of fader i is transmitted and the tick leaves it where it was
Steady(i) ==
    /\ lastMidiValues[i] = internalFaders[i]
    /\ internalFaders'[i] = internalFaders[i]

\* the tick sets lastMidiValues[i] to a value that snapped to an endpoint
SyncsEndpoint(i) ==
    /\ displayMode[i] = 0
    /\ lastMidiValues'[i] # lastMidiValues[i]
    /\ (lastMidiValues'[i] < endpointLo \/ lastMidiValues'[i] > endpointHi)

\* C6 -- Endpoint stickiness: in 14-bit mode a value that snaps to an endpoint
\* arms 3 hold ticks; while the value holds steady each tick with the counter
\* above zero emits a message and counts one down, and a tick with the counter
\* at zero emits nothing.
C6_EndpointStickiness ==
    [][ \A i \in Faders :
          (Ticked /\ midiMode = 1)
          => /\ SyncsEndpoint(i) => endpointHoldCounter'[i] = holdFrames
             /\ (Steady(i) /\ endpointHoldCounter[i] > 0)
                => /\ wire'[i] # NoMsg
                   /\ endpointHoldCounter'[i] = endpointHoldCounter[i] - 1
             /\ (Steady(i) /\ endpointHoldCounter[i] = 0)
                => /\ wire'[i] = NoMsg
                   /\ endpointHoldCounter'[i] = 0 ]_vars

\* C6 witness: 1.0 was transmitted, two of the three hold ticks have re-sent
\* it and one is left.
C6_Witness ==
    /\ ev.op = "step"
    /\ displayMode[0] = 0
    /\ internalFaders[0] = One
    /\ lastMidiValues[0] = One
    /\ endpointHoldCounter[0] = 1
    /\ wire[0] # NoMsg

\* the tick took the hold branch for fader i (only that branch counts down)
HoldResend(i) == endpointHoldCounter'[i] < endpointHoldCounter[i]

\* C7 -- Every message re-emitted in an endpoint-hold window is the half of
\* the snapped endpoint integer: of 16383 for a transmitted value above 99%,
\* of 0 for one below 1%.
C7_HoldResendsEndpoint ==
    [][ \A i \in Faders :
          (Ticked /\ midiMode = 1 /\ displayMode[i] = 0 /\ HoldResend(i))
          => /\ lastMidiValues[i] > endpointHi
                => wire'[i] = halfMessage(i, fullScale, send14bitPhase)
             /\ (lastMidiValues[i] >= 0 /\ lastMidiValues[i] < endpointLo)
                => wire'[i] = halfMessage(i, 0, send14bitPhase) ]_vars

\* ------------------------------------------------------ repeated equal input
\* fader i rests in the Absolute state on its physical sample, transmitted
Converged(i) ==
    /\ ~inPickupMode[i]
    /\ internalFaders[i] = physicalFaderPos[i]
    /\ lastMidiValues[i] = internalFaders[i]

\* the same sample again leaves a converged fader where it is
SameSampleKeeps(i) ==
    (Sampled(i) /\ Converged(i) /\ physicalFaderPos'[i] = physicalFaderPos[i])
    => /\ ~inPickupMode'[i]
       /\ internalFaders'[i] = internalFaders[i]
       /\ wire'[i] = wire[i]

\* a tick outside the hold window sends nothing for a converged fader
QuietTick(i) ==
    (Ticked /\ Converged(i) /\ endpointHoldCounter[i] = 0)
    => /\ wire'[i] = NoMsg
       /\ lastMidiValues'[i] = lastMidiValues[i]

\* C8 -- Idempotence of repeated equal input, for a channel that no gang
\* leader writes on the tick: once converged (Absolute state, value equal to
\* the physical sample, value transmitted), the same sample again changes
\* nothing and a tick produces no message for the channel, except inside an
\* endpoint-hold window (endpointHoldCounter > 0).
C8_QuietUnlessGanged ==
    [][ \A i \in Faders :
          /\ SameSampleKeeps(i)
          /\ written'[i] = {} => QuietTick(i) ]_vars

\* C8, as the specification words it -- the same for every channel, gang followers included.
C8_QuietWhenConverged ==
    [][ \A i \in Faders : SameSampleKeeps(i) /\ QuietTick(i) ]_vars

\* C8 witness: fader 1 converged on 0.04, got the same sample a second time,
\* and the tick after it sent nothing.
C8_Witness ==
    /\ ev.op = "step"
    /\ n = 2
    /\ Converged(1)
    /\ internalFaders[1] = Sample(655)
    /\ lastPhysicalPos[1] = physicalFaderPos[1]
    /\ wire[1] = NoMsg

\* C9 -- After a reset, in 7-bit mode: of the ticks that each follow a sample
\* of 0.5, the first emits one message for the channel and the others none.
C9_OneMessageIn7Bit ==
    (midiMode = 0 /\ ev.op = "step")
    => /\ n = 2 => wire[0] # NoMsg
       /\ n > 2 => wire[0] = NoMsg

\* C9, as the specification words it -- the same in either MIDI mode.
C9_OneMessageAnyMode ==
    ev.op = "step"
    => /\ n = 2 => wire[0] # NoMsg
       /\ n > 2 => wire[0] = NoMsg

\* C9 witness: the last tick of the scenario in 7-bit mode, silent, the one
\* message of the first tick latched.
C9_Witness ==
    /\ midiMode = 0
    /\ ev.op = "step"
    /\ n = 2 * ScenarioTicks
    /\ physicalFaderPos[0] = Sample((ParamMax + 1) \div 2)
    /\ lastMidiValues[0] = internalFaders[0]
    /\ wire[0] = NoMsg

\* ----------------------------------------------------------------- the gangs
\* the followers of leader i as the invariant describes them: i+1 .. i+count,
\* clipped at the end of the bank and cut before the first nested leader
truncatedRange(i) ==
    { c \in Faders : /\ c > i
                     /\ c <= i + controlAllCount[i]
                     /\ \A k \in Faders : (k > i /\ k <= c) => controlAllCount[k] = 0 }

\* no fader is a leader and inside the range of an earlier leader
NoNestedLeader ==
    \A i \in Faders, j \in Faders :
        (controlAllCount[i] > 0 /\ j > i /\ j <= i + controlAllCount[i])
        => controlAllCount[j] = 0

\* what the last tick wrote: every leader only inside its truncated range, and
\* no fader by two leaders
WritesDisjoint ==
    \A c \in Faders :
        /\ Cardinality(written[c]) <= 1
        /\ \A i \in written[c] : c \in truncatedRange(i)

\* C10 -- Gang groups never overlap: after any control-count edits and on
\* every tick, a leader writes only i+1 .. i+count cut before the first nested
\* leader, no fader is written by two leaders, and no fader is at once a
\* leader and inside the range of an earlier leader.
C10_GroupsNeverOverlap ==
    /\ NoNestedLeader
    /\ ev.op = "step" => WritesDisjoint

\* ------------------------------------------------------ gang propagation
\* the tick propagated leader i, in gang mode m, to follower c
Propagates(i, c, m) ==
    Ticked /\ i \in written'[c] /\ controlAllMode[i] = m

\* C11 -- Gang relative-mode anchor: in Relative mode a propagation run with
\* the leader at exactly 0.5 leaves the value of every follower unchanged,
\* whatever referenceValue the follower holds.
C11_AnchorLeavesValue ==
    [][ \A i \in Faders, c \in Faders :
          (Propagates(i, c, 1) /\ internalFaders[i] = Half)
          => internalFaders'[c] = internalFaders[c] ]_vars

\* leader i propagates in Absolute mode to exactly two followers, lo holding
\* the reference 0.3 and hi the reference 0.8
SweepsTwo(i, lo, hi) ==
    /\ Propagates(i, lo, 0)
    /\ Propagates(i, hi, 0)
    /\ gangChildren(i) = {lo, hi}
    /\ faderReferenceValues[lo] = 3 * (One \div 10)
    /\ faderReferenceValues[hi] = 8 * (One \div 10)

\* neither follower is taken outside [0,1]
StaysInRange(lo, hi) ==
    /\ internalFaders'[lo] >= 0 /\ internalFaders'[lo] <= One
    /\ internalFaders'[hi] >= 0 /\ internalFaders'[hi] <= One

\* C12 -- Gang absolute-mode range: in Absolute mode with two followers whose
\* references are 0.3 and 0.8, no leader position takes a follower outside
\* [0,1]; the leader's full excursion carries the follower farthest from the
\* end exactly to it (the one at 0.3 is at 1.0 only with the leader at 1, the
\* one at 0.8 is at 0.0 only with the leader at 0), while the follower nearest
\* to the end gets there early and is held by the clamp (the one at 0.8 is at
\* 1.0 from leader 2/3 on).
C12_FarthestFollowerSpansRange ==
    [][ \A i \in Faders, lo \in Faders, hi \in Faders :
          SweepsTwo(i, lo, hi)
          => /\ StaysInRange(lo, hi)
             /\ (internalFaders'[lo] = One) <=> (internalFaders[i] = One)
             /\ (internalFaders'[hi] = 0) <=> (internalFaders[i] = 0)
             /\ 3 * internalFaders[i] >= 2 * One => internalFaders'[hi] = One ]_vars

\* C12, as the specification words it -- the follower at 0.8 reaches 1.0 when
\* the leader reaches 1 and not before.
C12_NearestFollowerSpansRange ==
    [][ \A i \in Faders, lo \in Faders, hi \in Faders :
          SweepsTwo(i, lo, hi)
          => /\ StaysInRange(lo, hi)
             /\ (internalFaders'[hi] = One) <=> (internalFaders[i] = One) ]_vars

\* C12 witness: the leader at 0.75 has put the follower anchored at 0.8 on
\* 1.0 and the one anchored at 0.3 on 0.625.
C12_Witness ==
    /\ ev.op = "step"
    /\ written[1] = {0} /\ written[2] = {0}
    /\ controlAllMode[0] = 0
    /\ faderReferenceValues[1] = 3 * (One \div 10)
    /\ faderReferenceValues[2] = 8 * (One \div 10)
    /\ internalFaders[0] = Half + Half \div 2
    /\ internalFaders[1] = 625 * Kilo
    /\ internalFaders[2] = One

\* C13: every message a step() sends in 7-bit mode for fader i is a control
\* change with status 0xB0 | (channel - 1), controller number i + 1 and a
\* value in 0..127.
Sends7(i) == Ticked /\ midiMode = 0 /\ wire'[i] # NoMsg

C13_SevenBitControllerIsIndexPlusOne ==
    [][ \A i \in Faders :
          Sends7(i) => /\ wire'[i].status = statusByte
                       /\ wire'[i].cc = i + 1
                       /\ wire'[i].val \in 0 .. midiTop ]_vars

\* C13 as the specification words it: the controller number is the fader
\* index i.
C13_SevenBitControllerIsIndex ==
    [][ \A i \in Faders :
          Sends7(i) => /\ wire'[i].status = statusByte
                       /\ wire'[i].cc = i
                       /\ wire'[i].val \in 0 .. midiTop ]_vars

\* in Note mode the last fader has sent a 7-bit message after a preset load
C13_Witness ==
    /\ ev.op = "step" /\ midiMode = 0
    /\ displayMode[0] = 1 /\ internalFaders[0] = One
    /\ wire[0].half = "cc7" /\ wire[0].cc = 1
    /\ lastMidiValues[NumFaders - 1] # Unset

\* C14: in 14-bit mode the MSB of fader i goes out on CC i and the LSB on
\* CC i + 32, each a control change of its own, and for a changed value the
\* two data bytes are the high and low 7 bits of an integer in 0..16383:
\* round(value * 16383) for a Number-mode value in [0.01, 0.99], 0 below
\* 0.01, 16383 above 0.99, and the snapped note number times 128 in Note mode.
Sends14(i) == Ticked /\ midiMode = 1 /\ wire'[i] # NoMsg
Changed14(i) ==
    /\ Sends14(i)
    /\ \/ lastMidiValues[i] < 0
       \/ Abs(internalFaders'[i] - lastMidiValues[i]) > changeThreshold
\* round(v * 16383) for v in micro-units, in two steps of a thousand
nearest14(v) ==
    ((v \div Kilo) * fullScale + ((v % Kilo) * fullScale + Half) \div Kilo) \div Kilo
snapped14(i, v) ==
    IF displayMode[i] = 1 THEN 128 * snapToActiveNote(v, i)
    ELSE IF v < endpointLo THEN 0
    ELSE IF v > endpointHi THEN fullScale
    ELSE nearest14(v)
PairFormat(i) ==
    /\ wire'[i].status = statusByte
    /\ wire'[i].val \in 0 .. midiTop
    /\ wire'[i].half \in {"msb", "lsb"}
    /\ wire'[i].half = "msb" => wire'[i].cc = i
    /\ wire'[i].half = "lsb" => wire'[i].cc = i + 32
HalvesOf(i, full) ==
    /\ full \in 0 .. fullScale
    /\ wire'[i].half = "msb" => wire'[i].val = full \div 128
    /\ wire'[i].half = "lsb" => wire'[i].val = full % 128

C14_HalvesOfSnappedInteger ==
    [][ \A i \in Faders :
          /\ Sends14(i) => PairFormat(i)
          /\ Changed14(i) => HalvesOf(i, snapped14(i, internalFaders'[i])) ]_vars

\* C14 as the specification words it: the integer is round(value * 16383)
\* for every value in [0, 1].
C14_HalvesOfRoundedValue ==
    [][ \A i \in Faders :
          /\ Sends14(i) => PairFormat(i)
          /\ Changed14(i) => HalvesOf(i, nearest14(internalFaders'[i])) ]_vars

\* both halves of 0.25 (4096 = 32 * 128 + 0) have gone out for fader 0
C14_Witness ==
    /\ ev.op = "step" /\ midiMode = 1 /\ displayMode[0] = 0
    /\ internalFaders[0] = 250000
    /\ wire[0].half = "lsb" /\ wire[0].cc = 32
    /\ rxMsb[0] = 32 /\ rxLsb[0] = 0
    /\ lastMidiValues[0] = 250000

\* C15: a step() propagates from the leader value the last parameterChanged
\* left behind, and the message it encodes for a follower that propagation
\* wrote is computed from the follower's value after the propagation.
Leads(i, c) == Ticked /\ written'[c] = {i}
ReadsResolvedLeader(i, c) ==
    /\ gangChanged(internalFaders[i], lastGangValues[i])
    /\ lastGangValues'[i] = internalFaders[i]
    /\ controlAllMode[i] = 0 =>
          internalFaders'[c] =
            clamp01(faderReferenceValues[c]
                    + absoluteShift(internalFaders[i], faderReferenceValues,
                                    gangChildren(i)))
EncodesPropagated(c) ==
    /\ wire'[c] = encode(c, internalFaders'[c]).msg
    /\ lastMidiValues'[c] = encode(c, internalFaders'[c]).last

C15_EncodeSeesPropagatedValue ==
    [][ \A i \in Faders, c \in Faders :
          Leads(i, c) => ReadsResolvedLeader(i, c) /\ EncodesPropagated(c) ]_vars

\* a sample moved leader 0, the step carried follower 1 along and sent the
\* high bits of the follower's new value
C15_Witness ==
    /\ ev.op = "step" /\ midiMode = 1
    /\ written[1] = {0}
    /\ physicalFaderPos[0] > 0 /\ internalFaders[0] = physicalFaderPos[0]
    /\ internalFaders[1] = internalFaders[0]
    /\ wire[1].half = "msb" /\ wire[1].val = nearest14(internalFaders[1]) \div 128
    /\ wire[1].val > 0

\* C16: with drift level Low or High, a physical sample within the drift
\* threshold of the fader's locked value changes neither the fader's held
\* value nor its pickup state.
driftThresholdOf(level) == IF level = 1 THEN driftLow ELSE driftHigh
SampleWithinLock(i) ==
    /\ Sampled(i)
    /\ driftLevel > 0
    /\ lastMidiValues[i] >= 0
    /\ Abs(physicalFaderPos'[i] - lastMidiValues[i]) <= driftThresholdOf(driftLevel)

C16_DriftFiltersBeforePickup ==
    [][ \A i \in Faders :
          SampleWithinLock(i)
          => /\ internalFaders'[i] = internalFaders[i]
             /\ inPickupMode'[i] = inPickupMode[i]
             /\ inSlewMode'[i] = inSlewMode[i] ]_vars

\* C17: in a step() the drift control passes the fader's value on when the
\* level is 0, the locked value is unset, or the two differ by more than the
\* threshold (0.005 Low, 0.01 High), and otherwise keeps the locked value;
\* the locked value changes only in a step() that passed the value on, or
\* when a display-mode toggle resets it to unset.
PassesLock(i) ==
    \/ driftLevel = 0
    \/ lastMidiValues[i] < 0
    \/ Abs(internalFaders'[i] - lastMidiValues[i]) > driftThresholdOf(driftLevel)
LockMoved(i) == lastMidiValues'[i] # lastMidiValues[i]
ApplyContract(i) ==
    Ticked =>
      /\ applyDriftControl(internalFaders'[i], lastMidiValues[i], driftLevel)
           = IF PassesLock(i) THEN internalFaders'[i] ELSE lastMidiValues[i]
      /\ midiMode = 0 /\ ~PassesLock(i) => wire'[i] = NoMsg
      /\ midiMode = 0 /\ PassesLock(i) /\ driftLevel > 0
           => lastMidiValues'[i] = internalFaders'[i]
LockReset(i) == ev'.op = "ui" /\ ev'.i = i /\ lastMidiValues'[i] = Unset

AdvancedSeq(q) == ev'.op = "advanceSequencer" /\ ev'.i = q
AdvancedGate(t) == ev'.op = "advanceGateSequencer" /\ ev'.i = t
NoSections(splitPoint, length) == splitPoint >= length
stepAfter(s, direction, length) ==
    IF direction = 0 THEN (s + 1) % length ELSE (s + length - 1) % length

\* C18: without sections (splitPoint >= length) an advance in Forward
\* direction moves the step to (step + 1) mod length and one in Backward
\* direction to (step - 1) mod length, for CV sequencers and gate tracks.
C18_SimpleWrapping ==
    [][ /\ \A q \in Seqs :
             ( /\ AdvancedSeq(q)
               /\ NoSections(seqV[q].splitPoint, seqV[q].stepCount)
               /\ seqV[q].direction \in {0, 1}
               /\ currentStep[q] \in 0 .. seqV[q].stepCount - 1 )
             => currentStep'[q]
                  = stepAfter(currentStep[q], seqV[q].direction, seqV[q].stepCount)
        /\ \A t \in Tracks :
             ( /\ AdvancedGate(t)
               /\ NoSections(gateV[t].splitPoint, gateV[t].trackLength)
               /\ gateV[t].direction \in {0, 1}
               /\ gateCurrentStep[t] \in 0 .. gateV[t].trackLength - 1 )
             => gateCurrentStep'[t]
                  = stepAfter(gateCurrentStep[t], gateV[t].direction,
                              gateV[t].trackLength) ]_vars

\* a Forward CV sequencer of 3 steps stands on its last step and a Backward
\* gate track of 3 steps has wrapped from step 0 to step 2
C18_Witness ==
    /\ ev.op = "advanceGateSequencer"
    /\ seqV[0].direction = 0 /\ seqV[0].stepCount = 3 /\ currentStep[0] = 2
    /\ gateV[0].direction = 1 /\ gateV[0].trackLength = 3 /\ gateCurrentStep[0] = 2

\* the step and the section that advance k of a cycle leads to
cycleStep(k, length, splitPoint, sec1Reps) ==
    IF k < splitPoint * sec1Reps THEN k % splitPoint
    ELSE splitPoint + ((k - splitPoint * sec1Reps) % (length - splitPoint))
cycleInSection2(k, splitPoint, sec1Reps) == k >= splitPoint * sec1Reps

\* C19: Forward with splitPoint < stepCount, from step 0 a CV sequencer plays
\* section 1 sec1Reps times, then section 2 sec2Reps times, then is back at
\* step 0 in the state it started from; inSection2 is true exactly while the
\* current step is a section-2 step.
C19_SectionCycle ==
    LET c == seqV[0]
    IN  SectionsForward(c)
        => /\ currentStep[0] = cycleStep(n, c.stepCount, c.splitPoint, c.sec1Reps)
           /\ inSection2[0] = cycleInSection2(n, c.splitPoint, c.sec1Reps)
           /\ inSection2[0] <=> currentStep[0] >= c.splitPoint
           /\ n = 0 => section1Counter[0] = 0 /\ section2Counter[0] = 0

\* the second pass of section 2 of a sequencer of 4 steps split at 2
C19_Witness ==
    /\ ev.op = "advanceSequencer"
    /\ seqV[0] = [ direction |-> 0, stepCount |-> 4, splitPoint |-> 2,
                   sec1Reps |-> 2, sec2Reps |-> 2 ]
    /\ n = 7
    /\ currentStep[0] = 3 /\ inSection2[0] /\ section2Counter[0] = 1

\* C20: Forward with 0 < splitPoint < trackLength and no fill, from step 0 a
\* gate track plays section 1 sec1Reps times, then section 2 sec2Reps times,
\* then is back at step 0 with gateInSection2 false, in the state it started
\* from.
C20_GateSectionCycle ==
    LET c == gateV[0]
    IN  GateSectionsForward(c)
        => /\ gateCurrentStep[0]
                = cycleStep(n, c.trackLength, c.splitPoint, c.sec1Reps)
           /\ gateInSection2[0] = cycleInSection2(n, c.splitPoint, c.sec1Reps)
           /\ n = 0 => /\ gateCurrentStep[0] = 0
                       /\ ~gateInSection2[0]
                       /\ gateSection1Counter[0] = 0
                       /\ gateSection2Counter[0] = 0

\* the last step of the second pass of section 1 of a track of 4 steps split
\* at 2, with a fill start that lies outside section 1
C20_Witness ==
    /\ ev.op = "advanceGateSequencer"
    /\ gateV[0] = [ direction |-> 0, trackLength |-> 4, splitPoint |-> 2,
                    sec1Reps |-> 2, sec2Reps |-> 1, fillStart |-> 2 ]
    /\ n = 3
    /\ gateCurrentStep[0] = 1 /\ ~gateInSection2[0] /\ gateSection1Counter[0] = 1

\* C21: Forward with 0 < fillStart < splitPoint < trackLength and sec1Reps > 1,
\* the fill fires only in the last repetition of section 1, on the advance
\* that would bring the step to fillStart: the track jumps to splitPoint with
\* gateInSection2 true and gateSection1Counter 0; every earlier repetition
\* plays section 1 in full; with sec1Reps = 1 or fillStart = 0 it never fires.
FillOn(c) ==
    /\ c.direction = 0
    /\ 0 < c.fillStart /\ c.fillStart < c.splitPoint /\ c.splitPoint < c.trackLength
    /\ c.sec1Reps > 1
\* section 2 is entered from a step before the last step of section 1
FillJump(t) ==
    /\ AdvancedGate(t)
    /\ ~gateInSection2[t] /\ gateInSection2'[t]
    /\ gateCurrentStep[t] + 1 < gateV[t].splitPoint
LastRepetition(t) == gateSection1Counter[t] = gateV[t].sec1Reps - 1

roundTripStep(k, length) == IF k < length THEN k ELSE 2 * length - 1 - k

\* C22: without sections a CV sequencer of N steps in Pingpong direction,
\* from step 0 going forward, visits 1, ..., N-1, N-1, N-2, ..., 1, 0, 0, 1,
\* ...: it turns at each end, plays the end step twice, and stays in 0..N-1.
C22_PingpongPlaysEndsTwice ==
    LET c == seqV[0]
    IN  (c.direction = 2 /\ c.splitPoint >= c.stepCount)
        => /\ currentStep[0] = roundTripStep(n, c.stepCount)
           /\ pingpongForward[0] = (n < c.stepCount)
           /\ currentStep[0] \in 0 .. c.stepCount - 1

\* a sequencer of 3 steps plays its last step for the second time
C22_Witness ==
    /\ ev.op = "advanceSequencer"
    /\ seqV[0].direction = 2 /\ seqV[0].stepCount = 3 /\ seqV[0].splitPoint = 3
    /\ n = 3 /\ currentStep[0] = 2 /\ ~pingpongForward[0]

\* the step that advance k of a round trip leads to when no end step is
\* played twice
bounceStep(k, length) == IF k < length THEN k ELSE 2 * length - 2 - k

\* C23: without sections a gate track of N steps in Pingpong direction, from
\* step 0 going forward, visits 1, ..., N-1, N-2, ..., 1, 0, 1, ...: it
\* bounces at each end without playing the end step twice, and stays in
\* 0..N-1, also for N = 1 and N = 2.
C23_GatePingpongBounces ==
    LET c == gateV[0]
    IN  (c.direction = 2 /\ c.splitPoint >= c.trackLength)
        => /\ gateCurrentStep[0] = bounceStep(n, c.trackLength)
           /\ gateCurrentStep[0] \in 0 .. c.trackLength - 1

\* a track of 3 steps is on its way down, one step below the top
C23_Witness ==
    /\ ev.op = "advanceGateSequencer"
    /\ gateV[0].direction = 2 /\ gateV[0].trackLength = 3 /\ gateV[0].splitPoint = 3
    /\ n = 3 /\ gateCurrentStep[0] = 1 /\ ~gatePingpongForward[0]

GateSectionsBackward(c) ==
    c.direction = 1 /\ 0 < c.splitPoint /\ c.splitPoint < c.trackLength

\* C24: Backward with 0 < splitPoint < trackLength, a track in section 2 is at
\* a step of splitPoint..trackLength-1; an advance from a step above
\* splitPoint decrements the step and stays in section 2; the advance from
\* step splitPoint moves the track to section 1 at step splitPoint-1 when it
\* completes pass sec2Reps of section 2, and otherwise restarts section 2 at
\* step trackLength-1.
C24_GateBackwardSection2 ==
    [][ \A t \in Tracks :
          LET c == gateV[t]
          IN  (AdvancedGate(t) /\ GateSectionsBackward(c) /\ gateInSection2[t])
              => /\ gateCurrentStep[t] \in c.splitPoint .. c.trackLength - 1
                 /\ gateCurrentStep[t] > c.splitPoint
                    => /\ gateCurrentStep'[t] = gateCurrentStep[t] - 1
                       /\ gateInSection2'[t]
                       /\ gateSection2Counter'[t] = gateSection2Counter[t]
                 /\ (gateCurrentStep[t] = c.splitPoint
                     /\ gateSection2Counter[t] + 1 >= c.sec2Reps)
                    => /\ gateCurrentStep'[t] = c.splitPoint - 1
                       /\ ~gateInSection2'[t]
                       /\ gateSection2Counter'[t] = 0
                 /\ (gateCurrentStep[t] = c.splitPoint
                     /\ gateSection2Counter[t] + 1 < c.sec2Reps)
                    => /\ gateCurrentStep'[t] = c.trackLength - 1
                       /\ gateInSection2'[t]
                       /\ gateSection2Counter'[t] = gateSection2Counter[t] + 1 ]_vars

\* section 2 of a track of 4 steps has been restarted after its first pass
C24_Witness ==
    /\ ev.op = "advanceGateSequencer"
    /\ GateSectionsBackward(gateV[0])
    /\ gateV[0].trackLength = 4 /\ gateV[0].splitPoint = 2 /\ gateV[0].sec2Reps = 2
    /\ gateInSection2[0] /\ gateCurrentStep[0] = 3 /\ gateSection2Counter[0] = 1

\* C25: in Pingpong direction section looping is disabled: for every
\* splitPoint and every sec1Reps and sec2Reps the CV sequencer visits the
\* steps that a sequencer without sections visits.
C25_PingpongIgnoresSections ==
    LET c == seqV[0]
    IN  c.direction = 2 => currentStep[0] = roundTripStep(n, c.stepCount)

\* the step() call saw a rising edge on the reset bus and none on the clock bus
ResetEdgeOnly ==
    /\ ev'.op = "stepVSeq"
    /\ risingEdge(lastResetIn', lastResetIn)
    /\ ~risingEdge(lastClockIn', lastClockIn)

\* C26: after a step() call that sees a rising edge on Reset and no clock
\* edge, every CV sequencer and every gate track is at step 0 with its section
\* counters cleared, section 1 selected and the pingpong direction forward.
C26_ResetResetsAll ==
    [][ ResetEdgeOnly
        => /\ \A q \in Seqs :
                /\ currentStep'[q] = 0 /\ pingpongForward'[q]
                /\ section1Counter'[q] = 0 /\ section2Counter'[q] = 0
                /\ ~inSection2'[q]
           /\ \A t \in Tracks :
                /\ gateCurrentStep'[t] = 0 /\ gatePingpongForward'[t]
                /\ gateSection1Counter'[t] = 0 /\ gateSection2Counter'[t] = 0
                /\ ~gateInSection2'[t] ]_vars

\* customUi has just run in gate mode with the left pot at ev'.potL
TrackPotMoved ==
    ev'.op = "customUiVSeq" /\ selectedSeq' = 3 /\ ev'.potL # Unset

\* C27: selectedTrack changes only on a customUi call in gate mode whose left
\* pot is caught: trackPotCaught was set by an earlier call, or the pot is
\* within 5% of selectedTrack / 5 at this call; trackPotCaught is set only by
\* a call whose pot is within 5% of the position of the track that stays
\* selected; a track change clears trackPotCaught; selectedTrack stays in
\* 0..5 and the track selected is the one whose position is within 10% of the
\* pot, so the top of the pot never selects track 0 nor the bottom track 5.
C27_TrackPotCatch ==
    [][ /\ selectedTrack \in 0 .. 5
        /\ selectedTrack' # selectedTrack
           => /\ TrackPotMoved
              /\ trackPotCaught \/ Abs(5 * ev'.potL - selectedTrack * One) < 250000
              /\ ~trackPotCaught'
              /\ Abs(selectedTrack' * One - 5 * ev'.potL) <= Half
        /\ (trackPotCaught' /\ ~trackPotCaught)
           => /\ TrackPotMoved
              /\ selectedTrack' = selectedTrack
              /\ Abs(5 * ev'.potL - selectedTrack * One) < 250000 ]_vars

\* the pot, caught at the track selected before, has selected track 2 and
\* must catch again
C27_Witness ==
    /\ ev.op = "customUiVSeq" /\ ev.potL = 450000
    /\ selectedSeq = 3 /\ selectedTrack = 2 /\ ~trackPotCaught

\* C28: in every state every channel is in pickup exactly when its pivot is
\* set, and a pivot that is set lies in [0,1]; a constructed channel is in
\* Absolute with the pivot unset.
C28_PivotSetIffPickup ==
    \A i \in Faders :
        /\ inPickupMode[i] <=> pickupPivot[i] # Unset
        /\ inPickupMode[i] => (pickupPivot[i] >= 0 /\ pickupPivot[i] <= One)
        /\ ev.op = "construct" => ~inPickupMode[i]

\* fader 0 is in pickup under the Scaled policy, the control has moved on from
\* the position where pickup was entered, and the pivot is still that position
C28_Witness ==
    /\ ev.op = "param" /\ pickupMode = 0
    /\ inPickupMode[0] /\ pickupPivot[0] = scaleParam(14745)
    /\ physicalFaderPos[0] = scaleParam(8192)

\* C29: after any sequence of samples, under either pickup policy and with
\* the slew steps that are not clamped, and of gang propagations, the value of
\* every channel lies in [0,1].
C29_ValueInRange ==
    \A i \in Faders : internalFaders[i] >= 0 /\ internalFaders[i] <= One

\* a slew step has brought fader 0 down from 1.0, and step() has propagated
\* that value to fader 1
C29_Witness ==
    /\ ev.op = "step"
    /\ inSlewMode[0] /\ internalFaders[0] = One - slewRate
    /\ 1 \in gangChildren(0) /\ internalFaders[1] = One - slewRate

\* the sample on fader i has put the channel into pickup
ReentersPickup(i) == Sampled(i) /\ ~inPickupMode[i] /\ inPickupMode'[i]

\* the sample on fader i lies more than 0.001 from the position two samples back
MovesOn(i) == Abs(physicalFaderPos'[i] - lastPhysicalPos[i]) > moveThreshold

\* C30, as the specification words it: a sample that finds the settle
\* countdown non-zero never puts the channel back into pickup.
C30_NoEntryDuringCountdown ==
    [][ \A i \in Faders : ReentersPickup(i) => pickupSettleFrames[i] = 0 ]_vars

\* C30: a sample taken in Absolute first updates the settle countdown (one
\* less if the sample is not moving continuously, 0 if it is) and enters
\* pickup only if the updated countdown is 0: a sample that is not moving
\* continuously and finds the countdown at 2 or more never enters pickup, it
\* is followed directly; a sample that enters pickup found the countdown at 0
\* or 1, or was moving continuously.
C30_EntryAfterCountdownUpdate ==
    [][ \A i \in Faders :
          /\ ReentersPickup(i)
             => /\ pickupSettleFrames[i] <= 1 \/ MovesOn(i)
                /\ pickupSettleFrames'[i] = 0
          /\ (Sampled(i) /\ ~inPickupMode[i] /\ pickupSettleFrames[i] >= 2 /\ ~MovesOn(i))
             => /\ ~inPickupMode'[i]
                /\ pickupSettleFrames'[i] = pickupSettleFrames[i] - 1
                /\ internalFaders'[i] = physicalFaderPos'[i] ]_vars

\* two samples more than 1% apart have been followed directly after a snap
\* exit, and the countdown stands at 3
C30_Witness ==
    /\ ev.op = "param" /\ ev.i = 0
    /\ ~inPickupMode[0] /\ pickupSettleFrames[0] = 3
    /\ Abs(physicalFaderPos[0] - lastPhysicalPos[0]) > 10 * moveThreshold
    /\ internalFaders[0] = physicalFaderPos[0]

\* a sample on fader i that finds the channel in pickup under the Scaled policy
ScaledSample(i) == Sampled(i) /\ inPickupMode[i] /\ pickupMode = 0

\* C31: a sample on a channel in pickup under the Scaled policy computes the
\* affine target from pivot, pickupStartValue and the sample, a value of
\* [0,1] that lies on the same side of pickupStartValue as the sample lies of
\* the pivot; a sample within 2% of the target sets value to the sample,
\* leaves pickup and clears the pivot, any other sample sets value to the
\* target and stays in pickup with pivot and pickupStartValue unchanged.
C31_ScaledStep ==
    [][ \A i \in Faders :
          ScaledSample(i) =>
            LET v      == physicalFaderPos'[i]
                target == scaledTarget(pickupPivot[i], pickupStartValue[i], v)
            IN  /\ target >= 0 /\ target <= One
                /\ v > pickupPivot[i] => target >= pickupStartValue[i]
                /\ v < pickupPivot[i] => target <= pickupStartValue[i]
                /\ v = pickupPivot[i] => target = pickupStartValue[i]
                /\ IF Abs(v - target) < caughtUpBand
                   THEN /\ internalFaders'[i] = v
                        /\ ~inPickupMode'[i]
                        /\ pickupPivot'[i] = Unset
                   ELSE /\ internalFaders'[i] = target
                        /\ inPickupMode'[i]
                        /\ pickupPivot'[i] = pickupPivot[i]
                        /\ pickupStartValue'[i] = pickupStartValue[i] ]_vars

\* under the Scaled policy fader 0 is still in pickup after a sample away from
\* the pivot, and its value is a target strictly between pickupStartValue
\* and the sample
C31_Witness ==
    /\ ev.op = "param" /\ ev.i = 0 /\ pickupMode = 0
    /\ inPickupMode[0]
    /\ physicalFaderPos[0] < pickupPivot[0]
    /\ internalFaders[0] < pickupStartValue[0]
    /\ internalFaders[0] > physicalFaderPos[0]

\* fader i has put a 7-bit message on the wire in this step()
Emits7(i) == wire'[i] # NoMsg /\ wire'[i].half = "cc7"

\* the value of fader i as the drift control lets it through to the encoder,
\* lastMidiValues[i] being the locked value
driftPassed(i) ==
    LET v    == internalFaders'[i]
        last == lastMidiValues[i]
        band == IF driftLevel = 1 THEN driftLow ELSE driftHigh
    IN  IF driftLevel = 0 \/ last < 0 \/ Abs(v - last) > band THEN v ELSE last

gangRange(i) == { c \in Faders : c > i /\ c <= i + controlAllCount[i] }

\* the propagation run of leader i alone, on the values and references as
\* they stand
propagated(i) ==
    gangLeader(i, [ f |-> internalFaders, r |-> faderReferenceValues,
                    l |-> lastGangValues, w |-> [c \in Faders |-> {}] ])

\* C33: a propagation run for leader i writes only the value, and in Relative
\* mode the referenceValue, of followers in its range; it leaves the
\* leader's own value and every channel outside the range alone.  Over a
\* whole step() no leader's value changes, a value or reference that changes
\* belongs to a follower in the range of some leader, a reference changes
\* only under a Relative leader, pickup flags, pivot and pickupStartValue are
\* left as they were, and lastMidiValues is written by the encoder alone: it
\* stays or takes the value the channel has after propagation.
C33_PropagationFrame ==
    [][ Ticked =>
          /\ \A i \in Faders :
                LET g == propagated(i)
                IN  /\ g.f[i] = internalFaders[i]
                    /\ \A c \in Faders \ gangRange(i) :
                          /\ g.f[c] = internalFaders[c]
                          /\ g.r[c] = faderReferenceValues[c]
                    /\ controlAllMode[i] = 0 => g.r = faderReferenceValues
          /\ \A c \in Faders :
                /\ controlAllCount[c] > 0 => internalFaders'[c] = internalFaders[c]
                /\ internalFaders'[c] # internalFaders[c]
                   => \E i \in Faders : controlAllCount[i] > 0 /\ c \in gangRange(i)
                /\ faderReferenceValues'[c] # faderReferenceValues[c]
                   => \E i \in Faders : /\ controlAllCount[i] > 0 /\ c \in gangRange(i)
                                        /\ controlAllMode[i] = 1
                /\ lastMidiValues'[c] \in {lastMidiValues[c], internalFaders'[c]}
          /\ UNCHANGED << inPickupMode, inSlewMode, pickupPivot, pickupStartValue >>
      ]_vars

\* a Relative leader 0 away from rest has scaled follower 1 down from the
\* position of its control, and its reference with it
C33_Witness ==
    /\ ev.op = "step"
    /\ controlAllCount[0] > 0 /\ controlAllMode[0] = 1
    /\ written[1] = {0}
    /\ internalFaders[1] > 0
    /\ internalFaders[1] < physicalFaderPos[1]
    /\ faderReferenceValues[1] = internalFaders[1]

\* C34: every sample processed for a channel that is a follower of a gang
\* leader leaves the follower's reference value equal to its value at the end
\* of the sample, whatever pickup state the follower is in.
C34_FollowerReanchored ==
    [][ \A i \in Faders :
          (Sampled(i) /\ isChild(i)) => faderReferenceValues'[i] = internalFaders'[i]
      ]_vars

\* the half a tick sends when it finds the phase flag at `phase`
phaseHalf(phase) == IF phase THEN "lsb" ELSE "msb"

\* C35: in 14-bit mode every step() toggles send14bitPhase, so consecutive
\* ticks alternate between MSB and LSB, and nothing but step() changes the
\* flag; within one tick every channel puts at most one message on the wire,
\* and every message is of the half the flag selected when the tick began
\* (controller i for an MSB, i + 32 for an LSB).
C35_PhaseAlternation ==
    [][ /\ (Ticked /\ midiMode = 1) =>
             /\ send14bitPhase' = ~send14bitPhase
             /\ \A i \in Faders :
                   \/ wire'[i] = NoMsg
                   \/ /\ wire'[i].half = phaseHalf(send14bitPhase)
                      /\ wire'[i].cc = IF send14bitPhase THEN i + 32 ELSE i
                      /\ wire'[i].val \in 0 .. midiTop
        /\ ~Ticked => send14bitPhase' = send14bitPhase
      ]_vars

\* a tick has sent the LSB of fader 0 after an earlier tick sent its MSB, and
\* the flag is back at MSB
C35_Witness ==
    /\ ev.op = "step" /\ midiMode = 1
    /\ ~send14bitPhase
    /\ wire[0].half = "lsb"
    /\ rxMsb[0] >= 0
    /\ rxLsb[0] = wire[0].val

\* C36: in Relative mode, with the follower's control left alone, a step()
\* that finds the leader back at 0.5 after an excursion to other positions
\* leaves the follower at the value it had before the excursion (the
\* position of its control, where it was anchored with the leader at 0.5).
C36_RelativeRoundTrip ==
    (ev.op = "step" /\ n >= 5 /\ controlAllMode[0] = 1 /\ internalFaders[0] = Half)
    => internalFaders[1] = physicalFaderPos[1]

\* C37: in every reachable state, also after the pickup policy has been
\* switched while a channel is in pickup, inSlewMode is not set on a channel
\* whose inPickupMode is clear.
C37_SlewOnlyInPickup ==
    \A i \in Faders : inSlewMode[i] => inPickupMode[i]

\* C38: with stepCount and splitPoint fixed, currentStep lies in
\* 0 .. stepCount - 1 on return from every advanceSequencer call, whatever
\* direction and repeat counts each call is made with; and with trackLength,
\* splitPoint and fillStart fixed, gateCurrentStep lies in 0 .. trackLength - 1
\* on return from every advanceGateSequencer call.
C38_StepBounds ==
    /\ ev.op = "advanceSequencer"
       => (currentStep[0] >= 0 /\ currentStep[0] < seqV[0].stepCount)
    /\ ev.op = "advanceGateSequencer"
       => (gateCurrentStep[0] >= 0 /\ gateCurrentStep[0] < gateV[0].trackLength)

\* the fields of CV sequencer q and of gate track t after the step
seqAfter(q) ==
    [ step |-> currentStep'[q], fwd |-> pingpongForward'[q],
      c1 |-> section1Counter'[q], c2 |-> section2Counter'[q],
      in2 |-> inSection2'[q] ]
gateAfter(t) ==
    [ step |-> gateCurrentStep'[t], fwd |-> gatePingpongForward'[t],
      c1 |-> gateSection1Counter'[t], c2 |-> gateSection2Counter'[t],
      in2 |-> gateInSection2'[t] ]

SelectionChanged ==
    /\ ev'.op = "customUiVSeq"
    /\ (selectedSeq' # selectedSeq \/ selectedStep' # selectedStep)

\* C40: in CV mode a pot writes only the step value of the selected
\* (sequencer, step) pair and only while potCaught is set for it; potCaught
\* becomes set only when the pot is within 2% of the stored value; and
\* potCaught is cleared by every change of the selection, whether made by
\* the right encoder, by the left encoder or by a step change in gate mode.
C40_CatchPerSelection ==
    [][ /\ \A q \in Seqs, k \in Steps, o \in Outs :
              stepValues'[q][k][o] # stepValues[q][k][o]
              => /\ ev'.op = "customUiVSeq"
                 /\ q = selectedSeq' /\ k = selectedStep'
                 /\ potCaught'[o]
        /\ (~potCaught[0] /\ potCaught'[0])
           => /\ ev'.op = "customUiVSeq" /\ ev'.potL # Unset /\ selectedSeq' # 3
              /\ potCatches(ev'.potL, stepValues[selectedSeq'][selectedStep'][0])
        /\ SelectionChanged => \A o \in Outs : ~potCaught'[o]
      ]_vars

====
